---- MODULE Spec2Model ----
(***************************************************************************)
(* Model of pathfinder's upstream Ethereum transport (retry_chain and the  *)
(* BackoffStrategy / BackoffIter pair, ethereum/transport.rs) and of the   *)
(* JSON-RPC query surface (rpc.rs): starknet_getEvents and the methods     *)
(* that read blocks, transactions and contract storage.                    *)
(***************************************************************************)
EXTENDS Integers, Sequences, FiniteSets, TLC

VARIABLES
    values,       \* BackoffStrategy.values of the strategy under test
    iters,        \* BackoffIter.inner of every iterator taken from it
    outs,         \* per iterator: the Durations next() has returned, in order
    pc,           \* position of the task running retry_chain
    backoff_iter, \* retry_chain's local backoff_iter (BackoffIter.inner)
    result,       \* the value retry_chain returned, None while it has not
    last,         \* outcome of the latest upstream eth_chainId call
    calls,        \* upstream calls issued by this invocation
    sleeps,       \* the backoff values this invocation slept for, in order
    logged,       \* the tracing::debug! records of this invocation, in order
    events,       \* the stored events, in storage order
    request,      \* the EventFilter of the latest starknet_getEvents request
    reply,        \* the reply to it
    walk,         \* a client reading pages 0, 1, 2, ... of one filter
    storage,      \* the stored blocks, in the order they were committed
    rpc_request,  \* the JSON-RPC request being served, None between requests
    sequencer,    \* what the sequencer answered for it, None if it was not asked
    rpc_reply,    \* the handler's reply to it
    wire,         \* the request as received: method name and params member
    stages,       \* the stages the request has moved through, in order
    status,       \* the SyncState.status cell shared with the sync engine
    lock,         \* the RwLock around the cell: who holds it
    engine,       \* the sync engine's position in replacing the status
    query,        \* the position and the reply of each concurrent request
    written,      \* the statuses the sync engine has written, oldest first
    tasks         \* the locals of each of the concurrent retry_chain invocations

vars == << values, iters, outs, pc, backoff_iter, result, last, calls, sleeps,
           logged, events, request, reply, walk, storage, rpc_request, sequencer,
           rpc_reply, wire, stages, status, lock, engine, query, written, tasks >>

backoffVars == << values, iters, outs >>
retryVars == << pc, backoff_iter, result, last, calls, sleeps, logged >>
eventVars == << events, request, reply, walk >>
rpcVars == << storage, rpc_request, sequencer, rpc_reply, wire, stages, status >>
syncVars == << lock, engine, query, written >>
taskVars == << tasks >>

None == [tag |-> "None"]

RECURSIVE SeqsUpTo(_, _)
\* every sequence over S of length at most n
SeqsUpTo(S, n) ==
    IF n = 0 THEN { << >> }
    ELSE LET shorter == SeqsUpTo(S, n - 1)
         IN shorter \cup { Append(s, x) : s \in { t \in shorter : Len(t) = n - 1 }, x \in S }

(***************************************************************************)
(* BackoffStrategy and BackoffIter                                         *)
(***************************************************************************)

\* bounds of the backoff specification
MaxLen == 3
MaxDuration == 2
MaxNext == 5
NumIters == 2

Durations == 0 .. MaxDuration
IterIds == 1 .. NumIters

\* Duration::ZERO
ZERO == 0

\* BackoffStrategy::iter: a peekable slice iterator positioned on the first value
BackoffStrategy_iter(vs) == [tag |-> "Iter", pos |-> 1]

\* IterRepeat::Repeat(d)
Repeat(d) == [tag |-> "Repeat", d |-> d]

\* BackoffIter::next, the Duration it returns
BackoffIter_next_value(vs, inner) ==
    IF inner.tag = "Iter"
    THEN IF inner.pos <= Len(vs) THEN vs[inner.pos] ELSE ZERO
    ELSE inner.d

\* BackoffIter::next without the switch to Repeat on the last element
BackoffIter_next_state_norepeat(vs, inner) ==
    IF inner.tag = "Iter" /\ inner.pos <= Len(vs)
    THEN [tag |-> "Iter", pos |-> inner.pos + 1]
    ELSE inner

\* BackoffIter::next, the iterator state it leaves
BackoffIter_next_state(vs, inner) ==
    IF inner.tag = "Iter"
    THEN IF inner.pos <= Len(vs)
         THEN IF inner.pos + 1 > Len(vs)
              THEN Repeat(vs[inner.pos])
              ELSE [tag |-> "Iter", pos |-> inner.pos + 1]
         ELSE inner
    ELSE inner

BackoffInit ==
    /\ values \in SeqsUpTo(Durations, MaxLen)
    /\ iters = [i \in IterIds |-> BackoffStrategy_iter(values)]
    /\ outs = [i \in IterIds |-> << >>]

\* (mutation: the cursor belongs to the strategy, all its iterators move)
BackoffNext_shared_cursor(i) ==
    /\ Len(outs[i]) < MaxNext
    /\ outs' = [outs EXCEPT ![i] = Append(@, BackoffIter_next_value(values, iters[i]))]
    /\ iters' = [j \in IterIds |-> BackoffIter_next_state(values, iters[i])]
    /\ UNCHANGED values
\* one call of next() on iterator i
BackoffNext(i) ==
    /\ Len(outs[i]) < MaxNext
    /\ outs' = [outs EXCEPT ![i] = Append(@, BackoffIter_next_value(values, iters[i]))]
    /\ iters' = [iters EXCEPT ![i] = BackoffIter_next_state(values, iters[i])]
    /\ UNCHANGED values

(***************************************************************************)
(* Transport::retry_chain                                                  *)
(***************************************************************************)

\* bound on the upstream calls one invocation is followed for
MaxCalls == 7

\* the Durations handed to BackoffStrategy::new, in seconds
RetryBackoff == << 2, 10, 30, 120, 300 >>

TOO_MANY_REQUESTS == 429
BAD_GATEWAY == 502
SERVICE_UNAVAILABLE == 503
GATEWAY_TIMEOUT == 504

\* HTTP status codes the upstream may answer with
HttpCodes == { 401, 404, 429, 500, 502, 503, 504 }

\* chain ids the upstream may report (U256)
ChainIds == { 0, 1, 4, 5 }

\* web3::Error values the upstream call may fail with
Web3Errors ==
    { [kind |-> k] : k \in { "Unreachable", "Decoder", "InvalidResponse",
                             "TransportMessage", "Rpc", "Io", "Internal" } }
    \cup { [kind |-> "TransportCode", code |-> c] : c \in HttpCodes }

\* what self.inner.eth().chain_id().await may evaluate to
Outcomes ==
    { [tag |-> "Ok", id |-> id] : id \in ChainIds }
    \cup { [tag |-> "Err", error |-> e] : e \in Web3Errors }

\* the first arm without GATEWAY_TIMEOUT
IsTransient_no504(e) ==
    \/ e.kind = "Unreachable"
    \/ /\ e.kind = "TransportCode"
       /\ e.code \in { TOO_MANY_REQUESTS, BAD_GATEWAY, SERVICE_UNAVAILABLE }

\* the first arm taking every 5xx status and 429
IsTransient_5xx(e) ==
    \/ e.kind = "Unreachable"
    \/ /\ e.kind = "TransportCode"
       /\ (e.code = TOO_MANY_REQUESTS \/ e.code >= 500)

\* the first arm taking a response that does not decode as well
IsTransient_decoder(e) ==
    \/ e.kind \in { "Unreachable", "Decoder" }
    \/ /\ e.kind = "TransportCode"
       /\ e.code \in { TOO_MANY_REQUESTS, BAD_GATEWAY, SERVICE_UNAVAILABLE, GATEWAY_TIMEOUT }

\* the first arm of `Err(e) => match e`
IsTransient(e) ==
    \/ e.kind = "Unreachable"
    \/ /\ e.kind = "TransportCode"
       /\ e.code \in { TOO_MANY_REQUESTS, BAD_GATEWAY, SERVICE_UNAVAILABLE, GATEWAY_TIMEOUT }

\* the chain id match with Rinkeby (4) taken for Goerli
MatchChainId_rinkeby(id) ==
    IF id = 1 THEN [tag |-> "Ok", chain |-> "Mainnet"]
    ELSE IF id = 5 \/ id = 4 THEN [tag |-> "Ok", chain |-> "Goerli"]
    ELSE [tag |-> "Err", error |-> [kind |-> "UnsupportedChain", id |-> id]]

\* the value of `Ok(chain_id) => match chain_id`
MatchChainId(id) ==
    IF id = 1 THEN [tag |-> "Ok", chain |-> "Mainnet"]
    ELSE IF id = 5 THEN [tag |-> "Ok", chain |-> "Goerli"]
    ELSE [tag |-> "Err", error |-> [kind |-> "UnsupportedChain", id |-> id]]

RetryInit ==
    /\ pc = "idle"
    /\ backoff_iter = None
    /\ result = None
    /\ last = None
    /\ calls = 0
    /\ sleeps = << >>
    /\ logged = << >>

\* retry_chain is called: the locals are built and the first chain_id call is issued
RetryChain ==
    /\ pc \in { "idle", "done", "cancelled" }
    /\ pc' = "calling"
    /\ backoff_iter' = BackoffStrategy_iter(RetryBackoff)
    /\ result' = None
    /\ last' = None
    /\ calls' = 1
    /\ sleeps' = << >>
    /\ logged' = << >>

\* self.inner.eth().chain_id().await resolves to o and `match result` runs
ChainIdReturns(o) ==
    /\ pc = "calling"
    /\ o.tag = "Err" /\ IsTransient(o.error) => calls < MaxCalls
    /\ last' = o
    /\ IF o.tag = "Ok"
       THEN /\ result' = MatchChainId(o.id)
            /\ pc' = "done"
            /\ UNCHANGED << backoff_iter, sleeps, logged >>
       ELSE IF IsTransient(o.error)
       THEN LET backoff == BackoffIter_next_value(RetryBackoff, backoff_iter)
            IN /\ backoff_iter' = BackoffIter_next_state(RetryBackoff, backoff_iter)
               /\ logged' = Append(logged, [reason |-> o.error, backoff |-> backoff])
               /\ sleeps' = Append(sleeps, backoff)
               /\ pc' = "sleeping"
               /\ UNCHANGED result
       ELSE /\ result' = [tag |-> "Err", error |-> o.error]
            /\ pc' = "done"
            /\ UNCHANGED << backoff_iter, sleeps, logged >>
    /\ UNCHANGED calls

\* a sleep that outlives the cancelled task and goes on to the next call
SleepDone_detached ==
    /\ \/ pc = "sleeping"
       \/ pc = "cancelled" /\ Len(sleeps) = calls
    /\ pc' = "calling"
    /\ calls' = calls + 1
    /\ UNCHANGED << backoff_iter, result, last, sleeps, logged >>

\* (mutation: the next call is issued without waiting for the answer of the
\* previous one or for the sleep)
SleepDone_eager ==
    /\ pc \in { "calling", "sleeping" }
    /\ calls < MaxCalls
    /\ pc' = "calling"
    /\ calls' = calls + 1
    /\ UNCHANGED << backoff_iter, result, last, sleeps, logged >>

\* tokio::time::sleep completes: `continue`, the next chain_id call is issued
SleepDone ==
    /\ pc = "sleeping"
    /\ pc' = "calling"
    /\ calls' = calls + 1
    /\ UNCHANGED << backoff_iter, result, last, sleeps, logged >>

\* the task is cancelled: the future is dropped at the .await it is suspended on
Cancel ==
    /\ pc \in { "calling", "sleeping" }
    /\ pc' = "cancelled"
    /\ UNCHANGED << backoff_iter, result, last, calls, sleeps, logged >>

(***************************************************************************)
(* starknet_getEvents                                                      *)
(***************************************************************************)

\* bounds of the event store and of the requests made against it
NUM_BLOCKS == 2
TRANSACTIONS_PER_BLOCK == 2
PAGE_SIZE_LIMIT == 4
MaxPage == 4
MaxKeys == 2

NUM_TRANSACTIONS == NUM_BLOCKS * TRANSACTIONS_PER_BLOCK

\* the key every event of the test store carries at position 1
DEADBEEF == 0
\* the event of transaction i (0-based) as tests::events::setup stores it:
\* from_address "2"*(i+3), keys ["d"*(i+3), deadbeef], data ["c"*(i+3)]
StoredEvent(i) ==
    [ block_number |-> i \div TRANSACTIONS_PER_BLOCK,
      transaction_index |-> i % TRANSACTIONS_PER_BLOCK,
      event_index |-> 0,
      block_hash |-> i \div TRANSACTIONS_PER_BLOCK,
      transaction_hash |-> i,
      from_address |-> i,
      keys |-> << i + 1, DEADBEEF >>,
      data |-> << i >> ]

\* the store tests::events::setup builds
TestStore == [ n \in 1 .. NUM_TRANSACTIONS |-> StoredEvent(n - 1) ]

\* a store whose receipts hold zero, one or two events with zero to three keys
MixedStore ==
    << [ block_number |-> 0, transaction_index |-> 0, event_index |-> 0, block_hash |-> 0,
         transaction_hash |-> 0, from_address |-> 0, keys |-> << >>, data |-> << 0 >> ],
       [ block_number |-> 0, transaction_index |-> 0, event_index |-> 1, block_hash |-> 0,
         transaction_hash |-> 0, from_address |-> 1, keys |-> << 1 >>, data |-> << 1 >> ],
       [ block_number |-> 1, transaction_index |-> 1, event_index |-> 0, block_hash |-> 1,
         transaction_hash |-> 3, from_address |-> 0, keys |-> << 2, 1 >>, data |-> << 2 >> ],
       [ block_number |-> 1, transaction_index |-> 1, event_index |-> 1, block_hash |-> 1,
         transaction_hash |-> 3, from_address |-> 1, keys |-> << DEADBEEF, 1, 2 >>,
         data |-> << 3 >> ] >>

Stores == { << >>, TestStore, MixedStore }

Option(S) == { None } \cup { [tag |-> "Some", v |-> x] : x \in S }

\* the keys filters list: keys stored events carry and one (99) that none carries
FilterKeys == { DEADBEEF, 1, 2, 99 }

\* the EventFilter values requests are made with
EventFilters ==
    [ from_block : Option(0 .. NUM_BLOCKS),
      to_block : Option(0 .. NUM_BLOCKS),
      address : Option(0 .. 1),
      keys : SeqsUpTo(FilterKeys, MaxKeys),
      page_size : 0 .. PAGE_SIZE_LIMIT + 1,
      page_number : 0 .. MaxPage ]

\* EmittedEvent: the projection of a stored event a reply carries
EmittedEvent(e) ==
    [ from_address |-> e.from_address, keys |-> e.keys, data |-> e.data,
      block_hash |-> e.block_hash, block_number |-> e.block_number,
      transaction_hash |-> e.transaction_hash ]

\* the block-range part with to_block excluded from the range
BlockInRange_exclusive(e, filter) ==
    /\ filter.from_block = None \/ e.block_number >= filter.from_block.v
    /\ filter.to_block = None \/ e.block_number < filter.to_block.v

\* the block-range part of the matching predicate
BlockInRange(e, filter) ==
    /\ filter.from_block = None \/ e.block_number >= filter.from_block.v
    /\ filter.to_block = None \/ e.block_number <= filter.to_block.v

\* the address part of the matching predicate
AddressMatches(e, filter) ==
    filter.address = None \/ filter.address.v = e.from_address

\* the key part read by position: the event carries filter.keys[i] at position i
KeysMatch_positional(e, filter) ==
    \A i \in DOMAIN filter.keys : i \in DOMAIN e.keys /\ e.keys[i] = filter.keys[i]

\* the key part with the listed keys joined by AND
KeysMatch_all(e, filter) ==
    \A j \in DOMAIN filter.keys : \E i \in DOMAIN e.keys : e.keys[i] = filter.keys[j]

\* the key part with an empty list matching nothing
KeysMatch_nonempty(e, filter) ==
    \E i \in DOMAIN e.keys : \E j \in DOMAIN filter.keys : e.keys[i] = filter.keys[j]

\* the key part: `keys` is a flat Vec<EventKey>; an empty list does not constrain,
\* otherwise the event has to carry one of the listed keys, at whatever position
KeysMatch(e, filter) ==
    \/ filter.keys = << >>
    \/ \E i \in DOMAIN e.keys : \E j \in DOMAIN filter.keys : e.keys[i] = filter.keys[j]

EventMatches(e, filter) ==
    /\ BlockInRange(e, filter)
    /\ AddressMatches(e, filter)
    /\ KeysMatch(e, filter)

RECURSIVE Select_newest_first(_, _)
\* the stored events that match, latest first
Select_newest_first(store, filter) ==
    IF store = << >> THEN << >>
    ELSE LET rest == Select_newest_first(Tail(store), filter)
         IN IF EventMatches(Head(store), filter)
            THEN rest \o << EmittedEvent(Head(store)) >>
            ELSE rest

RECURSIVE Select(_, _)
\* the stored events that match, in storage order
Select(store, filter) ==
    IF store = << >> THEN << >>
    ELSE LET rest == Select(Tail(store), filter)
         IN IF EventMatches(Head(store), filter)
            THEN << EmittedEvent(Head(store)) >> \o rest
            ELSE rest

Min(a, b) == IF a <= b THEN a ELSE b

\* the offset taken to be the page number
PageOffset_unscaled(filter) == filter.page_number

\* the offset of the requested page in the list of matches
PageOffset(filter) == filter.page_number * filter.page_size

\* (mutation: the error carries no data)
PageSizeTooBig_without_data ==
    [tag |-> "Err", code |-> 31, message |-> "Requested page size is too big"]
\* RequestedPageSizeTooBig, as the wire shows it
PageSizeTooBig ==
    [ tag |-> "Err", code |-> 31, message |-> "Requested page size is too big",
      data |-> [max_page_size |-> PAGE_SIZE_LIMIT] ]

\* get_events with the last page recognised only when elements are left over
get_events_strict(store, filter) ==
    IF filter.page_size > PAGE_SIZE_LIMIT
    THEN PageSizeTooBig
    ELSE LET matches == Select(store, filter)
             skip == PageOffset(filter)
         IN [ tag |-> "Ok",
              events |-> SubSeq(matches, skip + 1, Min(skip + filter.page_size, Len(matches))),
              page_number |-> filter.page_number,
              is_last_page |-> skip + filter.page_size > Len(matches) ]

\* get_events with the limit itself rejected
get_events_ge(store, filter) ==
    IF filter.page_size >= PAGE_SIZE_LIMIT
    THEN PageSizeTooBig
    ELSE LET matches == Select(store, filter)
             skip == PageOffset(filter)
         IN [ tag |-> "Ok",
              events |-> SubSeq(matches, skip + 1, Min(skip + filter.page_size, Len(matches))),
              page_number |-> filter.page_number,
              is_last_page |-> skip + filter.page_size >= Len(matches) ]

\* RpcApi::get_events
get_events(store, filter) ==
    IF filter.page_size > PAGE_SIZE_LIMIT
    THEN PageSizeTooBig
    ELSE LET matches == Select(store, filter)
             skip == PageOffset(filter)
         IN [ tag |-> "Ok",
              events |-> SubSeq(matches, skip + 1, Min(skip + filter.page_size, Len(matches))),
              page_number |-> filter.page_number,
              is_last_page |-> skip + filter.page_size >= Len(matches) ]

Idle == [tag |-> "Idle"]

EventsInit ==
    /\ events \in Stores
    /\ request = None
    /\ reply = None
    /\ walk = Idle

\* a starknet_getEvents request with the filter `filter` is served
GetEvents(filter) ==
    /\ request = None
    /\ request' = filter
    /\ reply' = get_events(events, filter)
    /\ walk' = Idle
    /\ UNCHANGED events

\* a client asks for page 0 of a filter, meaning to read on to the last page
WalkStart(filter) ==
    /\ request = None
    /\ filter.page_number = 0
    /\ request' = filter
    /\ reply' = get_events(events, filter)
    /\ walk' = [ tag |-> "Walk", acc |-> IF reply'.tag = "Ok" THEN reply'.events ELSE << >> ]
    /\ UNCHANGED events

\* the client asks for the page after the one it was last given
WalkNext ==
    /\ walk.tag = "Walk"
    /\ reply.tag = "Ok"
    /\ ~reply.is_last_page
    /\ request.page_number < MaxPage
    /\ request' = [request EXCEPT !.page_number = @ + 1]
    /\ reply' = get_events(events, request')
    /\ walk' = [ walk EXCEPT !.acc = @ \o reply'.events ]
    /\ UNCHANGED events

\* the reply has been sent; the server is ready for the next request
Deliver ==
    /\ request # None
    /\ request' = None
    /\ reply' = None
    /\ walk' = Idle
    /\ UNCHANGED events

(***************************************************************************)
(* JSON-RPC queries over blocks, transactions and contract storage         *)
(* (rpc.rs run_server; the RpcApi handlers are modelled from the           *)
(* specification and from the replies the tests of rpc.rs assert)          *)
(***************************************************************************)

\* the rows of tests::error
CONTRACT_NOT_FOUND == [tag |-> "Err", code |-> 20, message |-> "Contract not found"]
INVALID_SELECTOR == [tag |-> "Err", code |-> 21, message |-> "Invalid message selector"]
INVALID_CALL_DATA == [tag |-> "Err", code |-> 22, message |-> "Invalid call data"]
INVALID_KEY == [tag |-> "Err", code |-> 23, message |-> "Invalid storage key"]
INVALID_BLOCK_HASH == [tag |-> "Err", code |-> 24, message |-> "Invalid block hash"]
INVALID_TX_HASH == [tag |-> "Err", code |-> 25, message |-> "Invalid transaction hash"]
INVALID_BLOCK_NUMBER == [tag |-> "Err", code |-> 26, message |-> "Invalid block number"]
INVALID_TX_INDEX ==
    [tag |-> "Err", code |-> 27, message |-> "Invalid transaction index in a block"]

Ok(v) == [tag |-> "Ok", value |-> v]

\* A 256-bit value (web3::types::H256) is the sequence of its 64 hexadecimal
\* digits, most significant first, so that values around 2^251 and 2^256 keep
\* their true magnitude.
Zeros(n) == [i \in 1..n |-> 0]
Fs(n) == [i \in 1..n |-> 15]

\* 0x0800000000000011000000000000000000000000000000000000000000000001
FIELD_MODULUS == << 0, 8 >> \o Zeros(12) \o << 1, 1 >> \o Zeros(47) \o << 1 >>
\* 0x0800000000000000000000000000000000000000000000000000000000000000 = 2^251
KEY_252_BITS == << 0, 8 >> \o Zeros(62)
\* StarkHash::from_be_slice(b"storage addr 0")
storage_addr ==
    Zeros(36) \o << 7, 3, 7, 4, 6, 15, 7, 2, 6, 1, 6, 7, 6, 5, 2, 0,
                    6, 1, 6, 4, 6, 4, 7, 2, 2, 0, 3, 0 >>

\* a < b for two values of the same number of digits
LessThan(a, b) ==
    \E i \in 1..Len(a) : a[i] < b[i] /\ \A j \in 1..(i - 1) : a[j] = b[j]

\* the keys a client sends: the key the stored contract uses, zero, and the
\* values on both sides of 2^251, of the field modulus and at the top of 2^256
StorageKeys ==
    { storage_addr,
      Zeros(64),
      << 0, 7 >> \o Fs(62),
      KEY_252_BITS,
      << 0, 8 >> \o Zeros(61) \o << 1 >>,
      << 0, 8 >> \o Zeros(12) \o << 1, 1 >> \o Zeros(48),
      FIELD_MODULUS,
      << 0, 8 >> \o Zeros(12) \o << 1, 1 >> \o Zeros(47) \o << 2 >>,
      << 1 >> \o Zeros(63),
      Fs(64) }

\* (mutations: the threshold one bit higher, one bit lower)
has_more_than_251_bits_252(h) == h[1] > 0
has_more_than_251_bits_250(h) == (16 * h[1] + h[2]) \div 4 > 0
\* the top five bits of the first byte are not all zero
has_more_than_251_bits(h) == (16 * h[1] + h[2]) \div 8 > 0

\* (mutation: a value past the modulus wraps around instead of being refused)
StorageKeyValid_wrapping(key) ==
    ~LessThan(key, FIELD_MODULUS) \/ ~has_more_than_251_bits(key)
\* OverflowingStorageAddress -> StorageAddress: a value that is not a field
\* element, or that needs more than 251 bits, is no storage key
StorageKeyValid(key) == LessThan(key, FIELD_MODULUS) /\ ~has_more_than_251_bits(key)

\* tests::setup_storage: the contract updates of blocks 0, 1 and 2
contract0_update == [address |-> "contract 0", storage_updates |-> << >>]
contract1_update0 ==
    [address |-> "contract 1",
     storage_updates |-> << [address |-> storage_addr, value |-> "storage value 0"] >>]
contract1_update1 ==
    [address |-> "contract 1",
     storage_updates |-> << [address |-> storage_addr, value |-> "storage value 1"] >>]
contract1_update2 ==
    [address |-> "contract 1",
     storage_updates |-> << [address |-> storage_addr, value |-> "storage value 2"] >>]
ContractUpdates ==
    << << contract0_update >>,
       << contract1_update0, contract1_update1 >>,
       << contract1_update2 >> >>

RECURSIVE SetAll(_, _)
\* a contract's storage after the writes `ups`, applied in order
SetAll(tree, ups) ==
    IF ups = << >> THEN tree
    ELSE LET u == Head(ups)
         IN SetAll([k \in DOMAIN tree \cup { u.address } |->
                        IF k = u.address THEN u.value ELSE tree[k]],
                   Tail(ups))

\* the global state after one ContractUpdate: the contract is in the tree
\* from now on, with its storage updated
update_contract_state(update, global_tree) ==
    LET old == IF update.address \in DOMAIN global_tree
               THEN global_tree[update.address] ELSE << >>
        new == SetAll(old, update.storage_updates)
    IN [c \in DOMAIN global_tree \cup { update.address } |->
            IF c = update.address THEN new ELSE global_tree[c]]

RECURSIVE ApplyUpdates(_, _)
ApplyUpdates(global_tree, updates) ==
    IF updates = << >> THEN global_tree
    ELSE ApplyUpdates(update_contract_state(Head(updates), global_tree), Tail(updates))

RECURSIVE GlobalRoot(_)
\* (mutation: every block is read at the newest state, global_root2)
GlobalRoot_newest(n) ==
    ApplyUpdates(<< >>, ContractUpdates[1] \o ContractUpdates[2] \o ContractUpdates[3])
\* (mutation: a contract is known at every block once any block deploys it)
GlobalRoot_predeployed(n) ==
    LET at == ApplyUpdates(<< >>,
                  IF n = 0 THEN ContractUpdates[1]
                  ELSE IF n = 1 THEN ContractUpdates[1] \o ContractUpdates[2]
                  ELSE ContractUpdates[1] \o ContractUpdates[2] \o ContractUpdates[3])
        newest == ApplyUpdates(<< >>, ContractUpdates[1] \o ContractUpdates[2]
                                      \o ContractUpdates[3])
    IN [c \in DOMAIN newest |-> IF c \in DOMAIN at THEN at[c] ELSE << >>]
\* the state committed at block n (global_root0, global_root1, global_root2)
GlobalRoot(n) ==
    ApplyUpdates(IF n = 0 THEN << >> ELSE GlobalRoot(n - 1), ContractUpdates[n + 1])

\* block0, block1, block2 with transaction_data0, transaction_data1,
\* transaction_data2
StarknetBlocks ==
    << [number |-> 0, hash |-> "genesis", transactions |-> << "txn 0" >>],
       [number |-> 1, hash |-> "block 1", transactions |-> << "txn 1", "txn 2" >>],
       [number |-> 2, hash |-> "latest",
        transactions |-> << "txn 3", "txn 4 ", "txn 5" >>] >>

\* StarkHash::ZERO, the hash of no block
ZERO_HASH == "0"
BlockHashes == { StarknetBlocks[n].hash : n \in DOMAIN StarknetBlocks } \cup { ZERO_HASH }
\* the heights a client asks for: those of the blocks, the one after, and 123
BlockNumbers == 0..Len(StarknetBlocks) \cup { 123 }
ContractAddresses == { "contract 0", "contract 1", "nonexistent" }
\* the hashes of the transactions of setup_storage, and one of no transaction
TransactionHashes ==
    UNION { { StarknetBlocks[n].transactions[i] :
                i \in DOMAIN StarknetBlocks[n].transactions } :
            n \in DOMAIN StarknetBlocks }
    \cup { "not found" }

\* rpc::types::Tag and the two reference types of the handlers' arguments
Latest == [tag |-> "Latest"]
Pending == [tag |-> "Pending"]
BlockHashOrTag ==
    { [tag |-> "Hash", hash |-> h] : h \in BlockHashes } \cup { Latest, Pending }
BlockNumberOrTag ==
    { [tag |-> "Number", number |-> n] : n \in BlockNumbers } \cup { Latest, Pending }
\* Option<BlockResponseScope>
RequestedScopes ==
    Option({ "TransactionHashes", "FullTransactions", "FullTransactionsAndReceipts" })
\* StarknetTransactionIndex values: the positions of the largest block, the
\* one past them, and 123
TransactionIndexes == 0..Len(StarknetBlocks) \cup { 123 }
\* request::Call: the call the tests send
Calls ==
    { [calldata |-> << "1234" >>, contract_address |-> "valid contract",
       entry_point_selector |-> "valid entry point"] }
\* the filters sent to starknet_getEvents here: no constraint, with the
\* largest page size allowed and with the first one that is not
RpcEventFilters ==
    { [from_block |-> None, to_block |-> None, address |-> None, keys |-> << >>,
       page_size |-> n, page_number |-> 0] : n \in { PAGE_SIZE_LIMIT, PAGE_SIZE_LIMIT + 1 } }
\* the values the sync engine writes to SyncState.status
SyncingFalse == [tag |-> "False"]
SyncingValues ==
    { SyncingFalse,
      [tag |-> "Status", starting_block |-> "starting", current_block |-> "current",
       highest_block |-> "highest"],
      [tag |-> "Status", starting_block |-> "starting", current_block |-> "highest",
       highest_block |-> "highest"] }

\* the requests of the registered methods, as their handlers receive them
RpcRequests ==
    { [method |-> "starknet_getBlockByHash", block_hash |-> b, requested_scope |-> s] :
        b \in BlockHashOrTag, s \in RequestedScopes }
    \cup
    { [method |-> "starknet_getBlockByNumber", block_number |-> b,
       requested_scope |-> s] : b \in BlockNumberOrTag, s \in RequestedScopes }
    \cup
    { [method |-> "starknet_getStorageAt", contract_address |-> c, key |-> k,
       block_hash |-> b] : c \in ContractAddresses, k \in StorageKeys, b \in BlockHashOrTag }
    \cup
    { [method |-> "starknet_getTransactionByBlockHashAndIndex", block_hash |-> b,
       index |-> i] : b \in BlockHashOrTag, i \in TransactionIndexes }
    \cup
    { [method |-> "starknet_getTransactionByBlockNumberAndIndex", block_number |-> b,
       index |-> i] : b \in BlockNumberOrTag, i \in TransactionIndexes }
    \cup
    { [method |-> "starknet_getBlockTransactionCountByHash", block_hash |-> b] :
        b \in BlockHashOrTag }
    \cup
    { [method |-> "starknet_getBlockTransactionCountByNumber", block_number |-> b] :
        b \in BlockNumberOrTag }
    \cup
    { [method |-> "starknet_call", request |-> c, block_hash |-> b] :
        c \in Calls, b \in BlockHashOrTag }
    \cup
    { [method |-> "starknet_getCode", contract_address |-> c] : c \in ContractAddresses }
    \cup
    { [method |-> "starknet_getEvents", filter |-> f] : f \in RpcEventFilters }
    \cup
    { [method |-> m] : m \in { "starknet_chainId", "starknet_syncing" } }
    \cup
    { [method |-> m, transaction_hash |-> h] :
        m \in { "starknet_getTransactionByHash", "starknet_getTransactionReceipt" },
        h \in TransactionHashes }
    \cup
    { [method |-> "starknet_blockNumber"] }

\* the block reference of a request, None for blockNumber
BlockReference(req) ==
    IF "block_hash" \in DOMAIN req THEN req.block_hash
    ELSE IF "block_number" \in DOMAIN req THEN req.block_number
    ELSE None

\* The sequencer (SeqClient) is a remote service, so what it answers is an
\* input of the request.  It serves the pending block, serves the storage of
\* the pending state, and executes call.
PendingBlocks ==
    { [number |-> None, hash |-> None, transactions |-> t] :
        t \in { << >>, << "txn pending 0" >>, << "txn pending 0", "txn pending 1" >> } }
SequencerAnswers(req) ==
    IF req.method = "starknet_call"
    THEN { Ok("call result"), CONTRACT_NOT_FOUND, INVALID_SELECTOR, INVALID_CALL_DATA }
         \cup IF req.block_hash.tag = "Hash" THEN { INVALID_BLOCK_HASH } ELSE {}
    ELSE IF BlockReference(req) # Pending THEN { None }
    ELSE IF req.method = "starknet_getStorageAt"
    THEN { Ok("storage value pending"), CONTRACT_NOT_FOUND }
    ELSE { Ok(b) : b \in PendingBlocks }

\* (mutation: the full forms leave out the block's first transaction)
Transactions_without_first(txs, scope) ==
    IF scope = None \/ scope.v = "TransactionHashes"
    THEN [tag |-> "HashesOnly", t |-> txs]
    ELSE IF scope.v = "FullTransactions"
    THEN [tag |-> "Full", t |-> [i \in 1..Len(txs) - 1 |-> [txn_hash |-> txs[i + 1]]]]
    ELSE [tag |-> "FullWithReceipts",
          t |-> [i \in 1..Len(txs) - 1 |->
                    [txn_hash |-> txs[i + 1],
                     receipt |-> [transaction_hash |-> txs[i + 1],
                                  transaction_index |-> i]]]]
\* Transactions::{HashesOnly, Full, FullWithReceipts} of a block's
\* transactions, as the requested scope selects
Transactions(txs, scope) ==
    IF scope = None \/ scope.v = "TransactionHashes"
    THEN [tag |-> "HashesOnly", t |-> txs]
    ELSE IF scope.v = "FullTransactions"
    THEN [tag |-> "Full", t |-> [i \in DOMAIN txs |-> [txn_hash |-> txs[i]]]]
    ELSE [tag |-> "FullWithReceipts",
          t |-> [i \in DOMAIN txs |->
                    [txn_hash |-> txs[i],
                     receipt |-> [transaction_hash |-> txs[i],
                                  transaction_index |-> i - 1]]]]

\* reply::Block
Block(b, scope) ==
    [block_hash |-> b.hash, block_number |-> b.number,
     transactions |-> Transactions(b.transactions, scope)]

\* the storage collaborator's three lookups; None when there is no such block
block_by_hash(blocks, h) ==
    LET found == { n \in DOMAIN blocks : blocks[n].hash = h }
    IN IF found = {} THEN None ELSE blocks[CHOOSE n \in found : TRUE]
block_by_number(blocks, number) ==
    LET found == { n \in DOMAIN blocks : blocks[n].number = number }
    IN IF found = {} THEN None ELSE blocks[CHOOSE n \in found : TRUE]
\* (mutation: the oldest stored block)
latest_block_oldest(blocks) ==
    IF blocks = << >> THEN None
    ELSE blocks[CHOOSE n \in DOMAIN blocks :
                    \A m \in DOMAIN blocks : blocks[m].number >= blocks[n].number]
latest_block(blocks) ==
    IF blocks = << >> THEN None
    ELSE blocks[CHOOSE n \in DOMAIN blocks :
                    \A m \in DOMAIN blocks : blocks[m].number <= blocks[n].number]

\* BlockResolver for ByHash, ByNumber and Tag(Latest): the block, or the
\* NotFound of the reference's kind
\* (mutation: a hash or height that is not stored falls back to latest)
resolve_or_latest(blocks, req) ==
    LET ref == BlockReference(req)
        b == IF ref.tag = "Hash" THEN block_by_hash(blocks, ref.hash)
             ELSE IF ref.tag = "Number" THEN block_by_number(blocks, ref.number)
             ELSE latest_block(blocks)
    IN IF b # None THEN Ok(b)
       ELSE IF latest_block(blocks) # None THEN Ok(latest_block(blocks))
       ELSE IF "block_hash" \in DOMAIN req THEN INVALID_BLOCK_HASH
       ELSE INVALID_BLOCK_NUMBER
resolve(blocks, req) ==
    LET ref == BlockReference(req)
        b == IF ref.tag = "Hash" THEN block_by_hash(blocks, ref.hash)
             ELSE IF ref.tag = "Number" THEN block_by_number(blocks, ref.number)
             ELSE latest_block(blocks)
    IN IF b # None THEN Ok(b)
       ELSE IF "block_hash" \in DOMAIN req THEN INVALID_BLOCK_HASH
       ELSE INVALID_BLOCK_NUMBER

\* the block a request is about: Tag(Pending) is the sequencer's pending
\* block, every other reference is resolved against the stored blocks
\* (mutation: pending is looked up in storage, as the newest stored block)
block_of_local(blocks, seq, req) ==
    IF BlockReference(req) = Pending
    THEN IF latest_block(blocks) # None THEN Ok(latest_block(blocks))
         ELSE IF "block_hash" \in DOMAIN req THEN INVALID_BLOCK_HASH
         ELSE INVALID_BLOCK_NUMBER
    ELSE resolve(blocks, req)
block_of(blocks, seq, req) ==
    IF BlockReference(req) = Pending THEN seq ELSE resolve(blocks, req)

get_block(blocks, seq, req) ==
    LET b == block_of(blocks, seq, req)
    IN IF b.tag = "Err" THEN b ELSE Ok(Block(b.value, req.requested_scope))

get_block_transaction_count(blocks, seq, req) ==
    LET b == block_of(blocks, seq, req)
    IN IF b.tag = "Err" THEN b ELSE Ok(Len(b.value.transactions))

\* (mutation: the index counts from one)
get_transaction_by_block_and_index_one_based(blocks, seq, req) ==
    LET b == block_of(blocks, seq, req)
    IN IF b.tag = "Err" THEN b
       ELSE IF 0 < req.index /\ req.index <= Len(b.value.transactions)
       THEN Ok([txn_hash |-> b.value.transactions[req.index]])
       ELSE INVALID_TX_INDEX
\* the transaction at position `index` of the block
get_transaction_by_block_and_index(blocks, seq, req) ==
    LET b == block_of(blocks, seq, req)
    IN IF b.tag = "Err" THEN b
       ELSE IF req.index < Len(b.value.transactions)
       THEN Ok([txn_hash |-> b.value.transactions[req.index + 1]])
       ELSE INVALID_TX_INDEX

\* StarkHash::ZERO, what a key that was never written holds
ZERO_VALUE == "0"

get_storage_at(blocks, seq, req) ==
    IF ~StorageKeyValid(req.key) THEN INVALID_KEY
    ELSE IF req.block_hash = Pending THEN seq
    ELSE LET b == resolve(blocks, req)
         IN IF b.tag = "Err" THEN b
            ELSE LET global_tree == GlobalRoot(b.value.number)
                 IN IF req.contract_address \notin DOMAIN global_tree
                    THEN CONTRACT_NOT_FOUND
                    ELSE LET tree == global_tree[req.contract_address]
                         IN IF req.key \in DOMAIN tree THEN Ok(tree[req.key])
                            ELSE Ok(ZERO_VALUE)

\* where the stored transaction of that hash is: << block, position >> pairs
transaction_location(blocks, h) ==
    { << n, i >> \in (DOMAIN blocks) \X (1..Len(StarknetBlocks)) :
        i \in DOMAIN blocks[n].transactions /\ blocks[n].transactions[i] = h }

\* (mutation: an unknown hash is answered with the first stored transaction)
get_transaction_by_hash_first(blocks, req) ==
    LET found == transaction_location(blocks, req.transaction_hash)
    IN IF found # {} THEN Ok([txn_hash |-> req.transaction_hash])
       ELSE IF blocks # << >> THEN Ok([txn_hash |-> blocks[1].transactions[1]])
       ELSE INVALID_TX_HASH
\* reply::Transaction of the stored transaction with that hash
get_transaction_by_hash(blocks, req) ==
    LET found == transaction_location(blocks, req.transaction_hash)
    IN IF found = {} THEN INVALID_TX_HASH
       ELSE LET at == CHOOSE l \in found : TRUE
            IN Ok([txn_hash |-> blocks[at[1]].transactions[at[2]]])

\* reply::TransactionReceipt of the stored transaction with that hash
get_transaction_receipt(blocks, req) ==
    LET found == transaction_location(blocks, req.transaction_hash)
    IN IF found = {} THEN INVALID_TX_HASH
       ELSE LET at == CHOOSE l \in found : TRUE
            IN Ok([txn_hash |-> blocks[at[1]].transactions[at[2]],
                   actual_fee |-> None])

\* call hands the request and the block reference to the sequencer
call(seq) == seq

\* a failure that is no RpcError: jsonrpsee's internal error
INTERNAL_ERROR == [tag |-> "Err", code |-> -32603, message |-> "Internal error"]

\* the height of the newest stored block; without one the database is empty
block_number(blocks) ==
    LET b == latest_block(blocks)
    IN IF b = None THEN INTERNAL_ERROR ELSE Ok(b.number)

\* the code of a contract the contracts table knows
get_code(blocks, req) ==
    IF blocks # << >> /\ req.contract_address \in DOMAIN GlobalRoot(Len(blocks) - 1)
    THEN Ok([abi |-> "abi", bytecode |-> "bytecode"])
    ELSE CONTRACT_NOT_FOUND

\* the chain the RpcApi was built for (Chain::Goerli in the tests)
chain_id == Ok("SN_GOERLI")

\* the content of the SyncState.status cell
syncing(cell) == Ok(cell)

\* the reply of the method's handler
Handle(blocks, seq, req) ==
    IF req.method \in { "starknet_getBlockByHash", "starknet_getBlockByNumber" }
    THEN get_block(blocks, seq, req)
    ELSE IF req.method = "starknet_getStorageAt"
    THEN get_storage_at(blocks, seq, req)
    ELSE IF req.method \in { "starknet_getTransactionByBlockHashAndIndex",
                             "starknet_getTransactionByBlockNumberAndIndex" }
    THEN get_transaction_by_block_and_index(blocks, seq, req)
    ELSE IF req.method \in { "starknet_getBlockTransactionCountByHash",
                             "starknet_getBlockTransactionCountByNumber" }
    THEN get_block_transaction_count(blocks, seq, req)
    ELSE IF req.method = "starknet_getTransactionByHash"
    THEN get_transaction_by_hash(blocks, req)
    ELSE IF req.method = "starknet_getTransactionReceipt"
    THEN get_transaction_receipt(blocks, req)
    ELSE IF req.method = "starknet_call" THEN call(seq)
    ELSE IF req.method = "starknet_getCode" THEN get_code(blocks, req)
    ELSE IF req.method = "starknet_getEvents" THEN get_events(events, req.filter)
    ELSE IF req.method = "starknet_chainId" THEN chain_id
    ELSE IF req.method = "starknet_syncing" THEN syncing(status)
    ELSE block_number(blocks)

(***************************************************************************)
(* The method table of run_server and the binding of a request's params    *)
(* (params.parse::<NamedArgs>())                                           *)
(***************************************************************************)

\* (mutation: the registration of pendingTransactions is not commented out)
RegisteredMethods_with_pending ==
    { "starknet_getBlockByHash", "starknet_getBlockByNumber",
      "starknet_getStorageAt", "starknet_getTransactionByHash",
      "starknet_getTransactionByBlockHashAndIndex",
      "starknet_getTransactionByBlockNumberAndIndex",
      "starknet_getTransactionReceipt", "starknet_getCode",
      "starknet_getBlockTransactionCountByHash",
      "starknet_getBlockTransactionCountByNumber",
      "starknet_call", "starknet_blockNumber", "starknet_chainId",
      "starknet_syncing", "starknet_getEvents", "starknet_pendingTransactions" }
\* the names run_server registers
RegisteredMethods ==
    { "starknet_getBlockByHash", "starknet_getBlockByNumber",
      "starknet_getStorageAt", "starknet_getTransactionByHash",
      "starknet_getTransactionByBlockHashAndIndex",
      "starknet_getTransactionByBlockNumberAndIndex",
      "starknet_getTransactionReceipt", "starknet_getCode",
      "starknet_getBlockTransactionCountByHash",
      "starknet_getBlockTransactionCountByNumber",
      "starknet_call", "starknet_blockNumber", "starknet_chainId",
      "starknet_syncing", "starknet_getEvents" }

\* the names whose registration is commented out, and one that never existed
UnregisteredMethods ==
    { "starknet_getStateUpdateByHash", "starknet_pendingTransactions",
      "starknet_protocolVersion", "starknet_noSuchMethod" }

\* the methods registered as `|_, context|`: their handler never looks at
\* the params
IgnoresParams == { "starknet_blockNumber", "starknet_chainId", "starknet_syncing" }

\* the fields of the method's NamedArgs, in the order they are declared
NamedArgs(method) ==
    CASE method = "starknet_getBlockByHash" -> << "block_hash", "requested_scope" >>
      [] method = "starknet_getBlockByNumber" -> << "block_number", "requested_scope" >>
      [] method = "starknet_getStorageAt" -> << "contract_address", "key", "block_hash" >>
      [] method = "starknet_getTransactionByHash" -> << "transaction_hash" >>
      [] method = "starknet_getTransactionByBlockHashAndIndex" ->
             << "block_hash", "index" >>
      [] method = "starknet_getTransactionByBlockNumberAndIndex" ->
             << "block_number", "index" >>
      [] method = "starknet_getTransactionReceipt" -> << "transaction_hash" >>
      [] method = "starknet_getCode" -> << "contract_address" >>
      [] method = "starknet_getBlockTransactionCountByHash" -> << "block_hash" >>
      [] method = "starknet_getBlockTransactionCountByNumber" -> << "block_number" >>
      [] method = "starknet_call" -> << "request", "block_hash" >>
      [] method = "starknet_getEvents" -> << "filter" >>
      [] OTHER -> << >>

\* the fields marked #[serde(default)]
SerdeDefault == { "requested_scope" }

\* the Rust type of each NamedArgs field
TypeOf(field) ==
    CASE field = "block_hash" -> "BlockHashOrTag"
      [] field = "block_number" -> "BlockNumberOrTag"
      [] field = "requested_scope" -> "BlockResponseScope"
      [] field = "contract_address" -> "ContractAddress"
      [] field = "key" -> "StorageAddress"
      [] field = "transaction_hash" -> "StarknetTransactionHash"
      [] field = "index" -> "StarknetTransactionIndex"
      [] field = "request" -> "Call"
      [] field = "filter" -> "EventFilter"

\* the values of each type
ValuesOf(type) ==
    CASE type = "BlockHashOrTag" -> BlockHashOrTag
      [] type = "BlockNumberOrTag" -> BlockNumberOrTag
      [] type = "BlockResponseScope" ->
             { "TransactionHashes", "FullTransactions", "FullTransactionsAndReceipts" }
      [] type = "ContractAddress" -> ContractAddresses
      [] type = "StorageAddress" -> StorageKeys
      [] type = "StarknetTransactionHash" -> TransactionHashes
      [] type = "StarknetTransactionIndex" -> TransactionIndexes
      [] type = "Call" -> Calls
      [] type = "EventFilter" -> RpcEventFilters

\* a JSON value, by the type whose Serialize wrote it
Json(type, v) == [t \in { type } |-> v]

\* a JSON value no field's type accepts
ILL_TYPED == Json("bool", TRUE)

\* the JSON values that deserialize into the field's type
Accepts(field, json) ==
    /\ DOMAIN json = { TypeOf(field) }
    /\ json[TypeOf(field)] \in ValuesOf(TypeOf(field))

\* the value a field is bound to: an Option field wraps what was sent
Deserialized(field, json) ==
    IF field \in SerdeDefault
    THEN [tag |-> "Some", v |-> json[TypeOf(field)]]
    ELSE json[TypeOf(field)]

\* the params member of a request: a list, a map, or none
Absent == [kind |-> "absent"]
PositionalParams(list) == [kind |-> "positional", list |-> list]
NamedParams(map) == [kind |-> "named", map |-> map]

INVALID_PARAMS == [tag |-> "Err", code |-> -32602, message |-> "Invalid params"]
METHOD_NOT_FOUND == [tag |-> "Err", code |-> -32601, message |-> "Method not found"]

\* position of the field in the method's NamedArgs
FieldIndex(method, field) ==
    CHOOSE i \in DOMAIN NamedArgs(method) : NamedArgs(method)[i] = field

\* (mutation: a list is bound from its last element backwards)
parse_reversed(method, params) ==
    LET fields == NamedArgs(method)
        names == { fields[i] : i \in DOMAIN fields }
        sent(f) == IF params.kind = "positional"
                   THEN FieldIndex(method, f) <= Len(params.list)
                   ELSE f \in DOMAIN params.map
        value(f) == IF params.kind = "positional"
                    THEN params.list[Len(params.list) + 1 - FieldIndex(method, f)]
                    ELSE params.map[f]
    IN IF params.kind = "absent" THEN INVALID_PARAMS
       ELSE IF params.kind = "positional" /\ Len(params.list) > Len(fields)
       THEN INVALID_PARAMS
       ELSE IF \E f \in names : ~sent(f) /\ f \notin SerdeDefault THEN INVALID_PARAMS
       ELSE IF \E f \in names : sent(f) /\ ~Accepts(f, value(f)) THEN INVALID_PARAMS
       ELSE [n \in names \cup { "method" } |->
                IF n = "method" THEN method
                ELSE IF sent(n) THEN Deserialized(n, value(n))
                ELSE None]
\* (mutation: a field that was not sent is left at its default, mandatory or not)
parse_lenient(method, params) ==
    LET fields == NamedArgs(method)
        names == { fields[i] : i \in DOMAIN fields }
        sent(f) == IF params.kind = "positional"
                   THEN FieldIndex(method, f) <= Len(params.list)
                   ELSE params.kind = "named" /\ f \in DOMAIN params.map
        value(f) == IF params.kind = "positional"
                    THEN params.list[FieldIndex(method, f)]
                    ELSE params.map[f]
    IN IF \E f \in names : sent(f) /\ ~Accepts(f, value(f)) THEN INVALID_PARAMS
       ELSE [n \in names \cup { "method" } |->
                IF n = "method" THEN method
                ELSE IF sent(n) THEN Deserialized(n, value(n))
                ELSE None]
\* params.parse::<NamedArgs>() with the derived Deserialize: a list binds the
\* fields in declaration order, a map binds them by name and ignores other
\* names; a field that was not sent takes its default if it has one; one
\* element too many, a missing field or a value of the wrong type is an error
parse(method, params) ==
    LET fields == NamedArgs(method)
        names == { fields[i] : i \in DOMAIN fields }
        sent(f) == IF params.kind = "positional"
                   THEN FieldIndex(method, f) <= Len(params.list)
                   ELSE f \in DOMAIN params.map
        value(f) == IF params.kind = "positional"
                    THEN params.list[FieldIndex(method, f)]
                    ELSE params.map[f]
    IN IF params.kind = "absent" THEN INVALID_PARAMS
       ELSE IF params.kind = "positional" /\ Len(params.list) > Len(fields)
       THEN INVALID_PARAMS
       ELSE IF \E f \in names : ~sent(f) /\ f \notin SerdeDefault THEN INVALID_PARAMS
       ELSE IF \E f \in names : sent(f) /\ ~Accepts(f, value(f)) THEN INVALID_PARAMS
       ELSE [n \in names \cup { "method" } |->
                IF n = "method" THEN method
                ELSE IF sent(n) THEN Deserialized(n, value(n))
                ELSE None]

\* what the registered callback binds before it calls the RpcApi method
bind(method, params) ==
    IF method \in IgnoresParams THEN [method |-> method] ELSE parse(method, params)

\* what the tests' client helpers send for a bound field
Sent(field, v) ==
    Json(TypeOf(field), IF field \in SerdeDefault THEN v.v ELSE v)

\* the fields of a request a client sends: an Option left at None is not sent
SentFields(r) ==
    { i \in DOMAIN NamedArgs(r.method) :
        NamedArgs(r.method)[i] \in SerdeDefault => r[NamedArgs(r.method)[i]] # None }

\* rpc_params!(..): the arguments as a list
positional(r) ==
    LET fields == NamedArgs(r.method)
    IN PositionalParams([i \in SentFields(r) |-> Sent(fields[i], r[fields[i]])])

\* by_name([..]): the arguments as a map
named(r) ==
    LET fields == NamedArgs(r.method)
    IN NamedParams([f \in { fields[i] : i \in SentFields(r) } |-> Sent(f, r[f])])

\* requests whose params fit the method: each RpcRequest sent both ways, a
\* map with one more name than the method declares, and the methods without
\* parameters called without params, with an empty list and with params
WellFormed ==
    { [method |-> r.method, params |-> positional(r)] :
        r \in { q \in RpcRequests : q.method \notin IgnoresParams } }
    \cup
    { [method |-> r.method, params |-> named(r)] :
        r \in { q \in RpcRequests : q.method \notin IgnoresParams } }
    \cup
    { [method |-> m,
       params |-> NamedParams(named(CHOOSE r \in RpcRequests : r.method = m).map
                              @@ [f \in { "unknown" } |-> ILL_TYPED])] :
        m \in RegisteredMethods \ IgnoresParams }
    \cup
    { [method |-> m, params |-> p] :
        m \in IgnoresParams,
        p \in { Absent, PositionalParams(<< >>), PositionalParams(<< ILL_TYPED >>),
                NamedParams([f \in { "unknown" } |-> ILL_TYPED]) } }

\* requests whose params do not fit, made from one request of each method:
\* no params, a list cut short before a field without default, a list with
\* one element too many, a map without one such field, and a list or a map
\* with one value of the wrong type
Malformed ==
    UNION {
        LET r == CHOOSE q \in RpcRequests : q.method = m
            list == positional(r).list
            map == named(r).map
            mandatory == { i \in DOMAIN NamedArgs(m) : NamedArgs(m)[i] \notin SerdeDefault }
        IN { [method |-> m, params |-> Absent],
             [method |-> m, params |-> PositionalParams(Append(list, ILL_TYPED))] }
           \cup { [method |-> m, params |-> PositionalParams(SubSeq(list, 1, i - 1))] :
                    i \in mandatory }
           \cup { [method |-> m,
                   params |-> NamedParams([f \in DOMAIN map \ { NamedArgs(m)[i] } |-> map[f]])] :
                    i \in mandatory }
           \cup { [method |-> m,
                   params |-> PositionalParams([list EXCEPT ![i] = ILL_TYPED])] :
                    i \in DOMAIN list }
           \cup { [method |-> m, params |-> NamedParams([map EXCEPT ![f] = ILL_TYPED])] :
                    f \in DOMAIN map }
        : m \in RegisteredMethods \ IgnoresParams }

\* requests to a name that is not registered
Unregistered ==
    { [method |-> m, params |-> p] :
        m \in UnregisteredMethods, p \in { Absent, PositionalParams(<< Latest >>) } }

WireRequests == WellFormed \cup Malformed \cup Unregistered

\* Storage::in_memory(), SyncState::default(): no block yet, not syncing
RpcInit ==
    /\ storage = << >>
    /\ status = SyncingFalse
    /\ wire = None
    /\ stages = << >>
    /\ rpc_request = None
    /\ sequencer = None
    /\ rpc_reply = None

\* the last stage the request has reached
Stage == IF stages = << >> THEN "Idle" ELSE stages[Len(stages)]

\* the sync engine commits the next block
Sync ==
    /\ Stage = "Idle"
    /\ Len(storage) < Len(StarknetBlocks)
    /\ storage' = Append(storage, StarknetBlocks[Len(storage) + 1])
    /\ UNCHANGED << rpc_request, sequencer, rpc_reply, wire, stages, status >>

\* the sync engine replaces the status (*sync_state.status.write().await = v)
WriteStatus(v) ==
    /\ Stage = "Idle"
    /\ status # v
    /\ status' = v
    /\ UNCHANGED << storage, rpc_request, sequencer, rpc_reply, wire, stages >>

\* a request arrives
Receive(w) ==
    /\ Stage = "Idle"
    /\ wire' = w
    /\ stages' = << "Received" >>
    /\ UNCHANGED << storage, status, rpc_request, sequencer, rpc_reply >>

\* the server looks the method up and the registered callback binds the
\* params: a name that is not registered and params that do not parse are
\* answered at once, with an error of the protocol
Dispatch ==
    /\ Stage = "Received"
    /\ IF wire.method \notin RegisteredMethods
       THEN /\ rpc_reply' = METHOD_NOT_FOUND
            /\ stages' = Append(stages, "Serialized")
            /\ UNCHANGED rpc_request
       ELSE LET bound == bind(wire.method, wire.params)
            IN IF "tag" \in DOMAIN bound
               THEN /\ rpc_reply' = bound
                    /\ stages' = Append(stages, "Serialized")
                    /\ UNCHANGED rpc_request
               ELSE /\ rpc_request' = bound
                    /\ stages' = Append(stages, "ParamsBound")
                    /\ UNCHANGED rpc_reply
    /\ UNCHANGED << storage, status, sequencer, wire >>

\* (mutation: the RpcApi method is called before the params are bound)
Resolve_unbound ==
    /\ Stage \in { "Received", "ParamsBound" }
    /\ stages' = Append(stages, "Resolving")
    /\ UNCHANGED << storage, status, rpc_request, sequencer, rpc_reply, wire >>
\* the callback calls the RpcApi method and awaits it
Resolve ==
    /\ Stage = "ParamsBound"
    /\ stages' = Append(stages, "Resolving")
    /\ UNCHANGED << storage, status, rpc_request, sequencer, rpc_reply, wire >>

\* (mutation: the method takes the write guard of the status cell and resets
\* the status while it answers)
Complete_resets_status(seq) ==
    /\ Stage = "Resolving"
    /\ sequencer' = seq
    /\ rpc_reply' = Handle(storage, seq, rpc_request)
    /\ stages' = Append(stages, IF rpc_reply'.tag = "Ok" THEN "Success" ELSE "DomainError")
    /\ status' = SyncingFalse
    /\ UNCHANGED << storage, rpc_request, wire >>
\* the RpcApi method returns: a value or an error; `seq` is what the
\* sequencer answered if the method asked it
Complete(seq) ==
    /\ Stage = "Resolving"
    /\ sequencer' = seq
    /\ rpc_reply' = Handle(storage, seq, rpc_request)
    /\ stages' = Append(stages, IF rpc_reply'.tag = "Ok" THEN "Success" ELSE "DomainError")
    /\ UNCHANGED << storage, status, rpc_request, wire >>

\* the result is written as the JSON-RPC response
Serialize ==
    /\ Stage \in { "Success", "DomainError" }
    /\ stages' = Append(stages, "Serialized")
    /\ UNCHANGED << storage, status, rpc_request, sequencer, rpc_reply, wire >>

\* the response is sent; the server takes the next request
RpcDeliver ==
    /\ Stage = "Serialized"
    /\ wire' = None
    /\ stages' = << >>
    /\ rpc_request' = None
    /\ sequencer' = None
    /\ rpc_reply' = None
    /\ UNCHANGED << storage, status >>

(***************************************************************************)
(* retry_chain invoked by several tasks: each invocation has its own       *)
(* backoff_strategy, backoff_iter and loop                                 *)
(***************************************************************************)

\* the tasks that invoke retry_chain at the same time
NumTasks == 2
Tasks == 1..NumTasks

\* no task has invoked retry_chain yet
TasksInit ==
    tasks = [t \in Tasks |->
                [pc |-> "idle", backoff_iter |-> None, calls |-> 0, sleeps |-> << >>]]

\* (mutation: the iterator outlives the invocation, as a field of the
\* Transport would)
TaskRetryChain_resumes(t) ==
    /\ tasks[t].pc \in { "idle", "done", "cancelled" }
    /\ tasks' = [tasks EXCEPT ![t] =
                    [pc |-> "calling",
                     backoff_iter |-> IF tasks[t].backoff_iter = None
                                      THEN BackoffStrategy_iter(RetryBackoff)
                                      ELSE tasks[t].backoff_iter,
                     calls |-> 1, sleeps |-> << >>]]
\* task t calls retry_chain: the strategy and its iterator are built and the
\* first chain_id call is issued
TaskRetryChain(t) ==
    /\ tasks[t].pc \in { "idle", "done", "cancelled" }
    /\ tasks' = [tasks EXCEPT ![t] =
                    [pc |-> "calling", backoff_iter |-> BackoffStrategy_iter(RetryBackoff),
                     calls |-> 1, sleeps |-> << >>]]

\* the chain_id call of task t resolves to o and `match result` runs
TaskChainIdReturns(t, o) ==
    /\ tasks[t].pc = "calling"
    /\ IF o.tag = "Err" /\ IsTransient(o.error)
       THEN /\ tasks[t].calls < MaxCalls
            /\ tasks' = [tasks EXCEPT
                   ![t].backoff_iter = BackoffIter_next_state(RetryBackoff, @),
                   ![t].sleeps = Append(@, BackoffIter_next_value(RetryBackoff,
                                                                  tasks[t].backoff_iter)),
                   ![t].pc = "sleeping"]
       ELSE tasks' = [tasks EXCEPT ![t].pc = "done"]

\* the sleep of task t completes: `continue`, the next chain_id call is issued
TaskSleepDone(t) ==
    /\ tasks[t].pc = "sleeping"
    /\ tasks' = [tasks EXCEPT ![t].pc = "calling", ![t].calls = @ + 1]

\* task t is cancelled: its future is dropped at the .await it is suspended on
TaskCancel(t) ==
    /\ tasks[t].pc \in { "calling", "sleeping" }
    /\ tasks' = [tasks EXCEPT ![t].pc = "cancelled"]

(***************************************************************************)
(* The status cell under its lock: the sync engine replaces the status    *)
(* while requests are served concurrently                                  *)
(***************************************************************************)

\* the requests served at the same time
NumRequests == 2
Requests == 1..NumRequests
\* the writes of the sync engine that are followed
MaxWrites == 2

\* the cell while a store is under way: part of the new value is in place
Mixture(old, new) == [tag |-> "Mixture", old |-> old, new |-> new]

\* SyncState::default(), no request in flight
SyncInit ==
    /\ lock = [readers |-> {}, writer |-> FALSE]
    /\ engine = [pc |-> "idle", value |-> None]
    /\ query = [r \in Requests |-> [pc |-> "idle", method |-> "", reply |-> None]]
    /\ written = << >>

\* (mutation: the write guard is handed out while readers hold the lock)
AcquireWrite_among_readers(v) ==
    /\ engine.pc = "idle"
    /\ Len(written) < MaxWrites
    /\ v # status
    /\ ~lock.writer
    /\ lock' = [lock EXCEPT !.writer = TRUE]
    /\ engine' = [pc |-> "locked", value |-> v]
    /\ UNCHANGED << status, query, written >>
\* sync_state.status.write().await: the guard is handed out when nobody
\* holds the lock
AcquireWrite(v) ==
    /\ engine.pc = "idle"
    /\ Len(written) < MaxWrites
    /\ v # status
    /\ ~lock.writer /\ lock.readers = {}
    /\ lock' = [lock EXCEPT !.writer = TRUE]
    /\ engine' = [pc |-> "locked", value |-> v]
    /\ UNCHANGED << status, query, written >>

\* (mutation: the guard is dropped before the store is complete)
Store_unlocked ==
    /\ engine.pc = "locked"
    /\ status' = Mixture(status, engine.value)
    /\ engine' = [engine EXCEPT !.pc = "storing"]
    /\ lock' = [lock EXCEPT !.writer = FALSE]
    /\ UNCHANGED << query, written >>
\* *guard = expected: the store begins
Store ==
    /\ engine.pc = "locked"
    /\ status' = Mixture(status, engine.value)
    /\ engine' = [engine EXCEPT !.pc = "storing"]
    /\ UNCHANGED << lock, query, written >>

\* the store is complete and the guard is dropped at the end of the statement
ReleaseWrite ==
    /\ engine.pc = "storing"
    /\ status' = engine.value
    /\ written' = Append(written, engine.value)
    /\ lock' = [lock EXCEPT !.writer = FALSE]
    /\ engine' = [pc |-> "idle", value |-> None]
    /\ UNCHANGED query

\* a starknet_syncing request arrives: context.syncing() asks for the read
\* guard
StartSyncing(r) ==
    /\ query[r].pc = "idle"
    /\ query' = [query EXCEPT ![r].pc = "waiting", ![r].method = "starknet_syncing"]
    /\ UNCHANGED << status, lock, engine, written >>

\* a request to a method that reads storage arrives (starknet_blockNumber
\* stands for them) and is suspended on that I/O
StartOther(r) ==
    /\ query[r].pc = "idle"
    /\ query' = [query EXCEPT ![r].pc = "io", ![r].method = "starknet_blockNumber"]
    /\ UNCHANGED << status, lock, engine, written >>

\* status.read().await: the guard is handed out when no writer holds the lock
AcquireRead(r) ==
    /\ query[r].pc = "waiting"
    /\ ~lock.writer
    /\ lock' = [lock EXCEPT !.readers = @ \cup { r }]
    /\ query' = [query EXCEPT ![r].pc = "reading"]
    /\ UNCHANGED << status, engine, written >>

\* .clone(): the reply is a copy of the cell
Clone(r) ==
    /\ query[r].pc = "reading"
    /\ query' = [query EXCEPT ![r].pc = "cloned", ![r].reply = syncing(status)]
    /\ UNCHANGED << status, lock, engine, written >>

\* the read guard is dropped
ReleaseRead(r) ==
    /\ query[r].pc = "cloned"
    /\ lock' = [lock EXCEPT !.readers = @ \ { r }]
    /\ query' = [query EXCEPT ![r].pc = "done"]
    /\ UNCHANGED << status, engine, written >>

\* the I/O of the other request completes
IoDone(r) ==
    /\ query[r].pc = "io"
    /\ query' = [query EXCEPT ![r].pc = "done", ![r].reply = Ok(0)]
    /\ UNCHANGED << status, lock, engine, written >>

\* the response is sent
Respond(r) ==
    /\ query[r].pc = "done"
    /\ query' = [query EXCEPT ![r] = [pc |-> "idle", method |-> "", reply |-> None]]
    /\ UNCHANGED << status, lock, engine, written >>

(***************************************************************************)
(* Specifications                                                          *)
(***************************************************************************)

BackoffStep == \E i \in IterIds : BackoffNext(i)

SpecBackoffInit == TasksInit /\ SyncInit /\ BackoffInit /\ RetryInit /\ events = << >> /\ request = None
                   /\ reply = None /\ walk = Idle /\ RpcInit
SpecBackoffNext == BackoffStep /\ UNCHANGED << retryVars, eventVars, rpcVars, syncVars, taskVars >>
SpecBackoff == SpecBackoffInit /\ [][SpecBackoffNext]_vars

RetryIdle == values = << >> /\ iters = << >> /\ outs = << >>

ChainIdStep == \E o \in Outcomes : ChainIdReturns(o)

SpecRetryInit == TasksInit /\ SyncInit /\ RetryInit /\ RetryIdle /\ events = << >> /\ request = None
                 /\ reply = None /\ walk = Idle /\ RpcInit
SpecRetryNext ==
    \/ RetryChain /\ UNCHANGED << backoffVars, eventVars, rpcVars, syncVars, taskVars >>
    \/ ChainIdStep /\ UNCHANGED << backoffVars, eventVars, rpcVars, syncVars, taskVars >>
    \/ SleepDone /\ UNCHANGED << backoffVars, eventVars, rpcVars, syncVars, taskVars >>
    \/ Cancel /\ UNCHANGED << backoffVars, eventVars, rpcVars, syncVars, taskVars >>
SpecRetry == SpecRetryInit /\ [][SpecRetryNext]_vars

GetEventsStep == request = None /\ \E f \in EventFilters : GetEvents(f)
WalkStartStep ==
    /\ request = None
    /\ \E f \in { g \in EventFilters : g.page_number = 0 } : WalkStart(f)

SpecEventsInit == TasksInit /\ SyncInit /\ EventsInit /\ RetryInit /\ RetryIdle /\ RpcInit
SpecEventsNext ==
    \/ GetEventsStep /\ UNCHANGED << backoffVars, retryVars, rpcVars, syncVars, taskVars >>
    \/ WalkStartStep /\ UNCHANGED << backoffVars, retryVars, rpcVars, syncVars, taskVars >>
    \/ WalkNext /\ UNCHANGED << backoffVars, retryVars, rpcVars, syncVars, taskVars >>
    \/ Deliver /\ UNCHANGED << backoffVars, retryVars, rpcVars, syncVars, taskVars >>
SpecEvents == SpecEventsInit /\ [][SpecEventsNext]_vars

ReceiveStep == Stage = "Idle" /\ \E w \in WireRequests : Receive(w)
CompleteStep == Stage = "Resolving" /\ \E seq \in SequencerAnswers(rpc_request) : Complete(seq)
WriteStatusStep == \E v \in SyncingValues : WriteStatus(v)

SpecRpcInit == TasksInit /\ SyncInit /\ RpcInit /\ RetryInit /\ RetryIdle /\ events = << >> /\ request = None
               /\ reply = None /\ walk = Idle
SpecRpcNext ==
    \/ Sync /\ UNCHANGED << backoffVars, retryVars, eventVars, syncVars, taskVars >>
    \/ WriteStatusStep /\ UNCHANGED << backoffVars, retryVars, eventVars, syncVars, taskVars >>
    \/ ReceiveStep /\ UNCHANGED << backoffVars, retryVars, eventVars, syncVars, taskVars >>
    \/ Dispatch /\ UNCHANGED << backoffVars, retryVars, eventVars, syncVars, taskVars >>
    \/ Resolve /\ UNCHANGED << backoffVars, retryVars, eventVars, syncVars, taskVars >>
    \/ CompleteStep /\ UNCHANGED << backoffVars, retryVars, eventVars, syncVars, taskVars >>
    \/ Serialize /\ UNCHANGED << backoffVars, retryVars, eventVars, syncVars, taskVars >>
    \/ RpcDeliver /\ UNCHANGED << backoffVars, retryVars, eventVars, syncVars, taskVars >>
SpecRpc == SpecRpcInit /\ [][SpecRpcNext]_vars


(* the status cell, its lock, the sync engine and concurrent requests *)
SpecSyncInit == TasksInit /\ SyncInit /\ RpcInit /\ RetryInit /\ RetryIdle /\ events = << >>
                /\ request = None /\ reply = None /\ walk = Idle
SyncFrame ==
    UNCHANGED << backoffVars, retryVars, eventVars, storage, rpc_request, sequencer,
                 rpc_reply, wire, stages, taskVars >>
SpecSyncNext ==
    \/ (\E v \in SyncingValues : AcquireWrite(v)) /\ SyncFrame
    \/ Store /\ SyncFrame
    \/ ReleaseWrite /\ SyncFrame
    \/ (\E r \in Requests : StartSyncing(r)) /\ SyncFrame
    \/ (\E r \in Requests : StartOther(r)) /\ SyncFrame
    \/ (\E r \in Requests : AcquireRead(r)) /\ SyncFrame
    \/ (\E r \in Requests : Clone(r)) /\ SyncFrame
    \/ (\E r \in Requests : ReleaseRead(r)) /\ SyncFrame
    \/ (\E r \in Requests : IoDone(r)) /\ SyncFrame
    \/ (\E r \in Requests : Respond(r)) /\ SyncFrame
SpecSync == SpecSyncInit /\ [][SpecSyncNext]_vars


(* retry_chain invoked by several tasks at the same time *)
SpecTasksInit == TasksInit /\ SyncInit /\ RpcInit /\ RetryInit /\ RetryIdle
                 /\ events = << >> /\ request = None /\ reply = None /\ walk = Idle
TasksFrame == UNCHANGED << backoffVars, retryVars, eventVars, rpcVars, syncVars >>
SpecTasksNext ==
    \/ (\E t \in Tasks : TaskRetryChain(t)) /\ TasksFrame
    \/ (\E t \in Tasks : \E o \in Outcomes : TaskChainIdReturns(t, o)) /\ TasksFrame
    \/ (\E t \in Tasks : TaskSleepDone(t)) /\ TasksFrame
    \/ (\E t \in Tasks : TaskCancel(t)) /\ TasksFrame
SpecTasks == SpecTasksInit /\ [][SpecTasksNext]_vars

(***************************************************************************)
(* Properties of BackoffIter                                               *)
(***************************************************************************)

\* C1: for a strategy built from a non-empty list d1..dn, the k-th result of
\* next() on one iterator is dk for k <= n and dn for every k > n
C1_BackoffSequence ==
    \A i \in IterIds :
        values # << >> =>
            \A k \in 1 .. Len(outs[i]) :
                outs[i][k] = IF k <= Len(values) THEN values[k] ELSE values[Len(values)]

\* an iterator advanced two calls past the end of a list whose last element is
\* neither zero nor the first element
C1_Witness ==
    \E i \in IterIds :
        /\ Len(values) >= 2
        /\ values[Len(values)] # ZERO
        /\ values[Len(values)] # values[1]
        /\ Len(outs[i]) >= Len(values) + 2

(***************************************************************************)
(* Properties of retry_chain                                               *)
(***************************************************************************)

\* the errors the specification calls transient
TransientError(e) ==
    \/ e.kind = "Unreachable"
    \/ e.kind = "TransportCode" /\ e.code \in { 429, 502, 503, 504 }

\* a step in which the pending chain_id call resolved
CallResolved == pc = "calling" /\ pc' \notin { "calling", "cancelled" }

\* the locals of the invocation other than its position
RetryLocalsUnchanged == UNCHANGED << backoff_iter, calls, sleeps, logged >>

\* C2: a chain_id call that fails transiently is followed by a backoff sleep and
\* the sleep by another call, however many calls were made before; an error
\* returned by retry_chain always stems from a non-transient error or from an
\* unsupported chain id
C2_TransientStep ==
    /\ CallResolved /\ last'.tag = "Err" /\ TransientError(last'.error) =>
           /\ pc' = "sleeping"
           /\ result' = None
           /\ Len(sleeps') = Len(sleeps) + 1
           /\ calls' = calls
    /\ pc = "sleeping" /\ pc' # "sleeping" =>
           \/ pc' = "cancelled"
           \/ pc' = "calling" /\ calls' = calls + 1 /\ result' = None
    /\ result'.tag = "Err" =>
           \/ last'.tag = "Err" /\ ~TransientError(last'.error)
           \/ last'.tag = "Ok" /\ last'.id \notin { 1, 5 }

C2_TransientRetried == [][C2_TransientStep]_vars

\* the call after MaxCalls - 1 transient failures, each HTTP status and
\* Unreachable among them, is pending
C2_Witness ==
    /\ pc = "calling"
    /\ calls = MaxCalls
    /\ Len(sleeps) = MaxCalls - 1
    /\ result = None
    /\ \A c \in { 429, 502, 503, 504 } :
           \E k \in DOMAIN logged : logged[k].reason = [kind |-> "TransportCode", code |-> c]
    /\ \E k \in DOMAIN logged : logged[k].reason = [kind |-> "Unreachable"]

\* C3: a successful chain_id call ends the invocation at once: Mainnet for 1,
\* Goerli for 5, an unsupported-chain error for every other id, with no backoff
\* step taken, no sleep and no further call
C3_SuccessStep ==
    /\ CallResolved /\ last'.tag = "Ok" =>
           /\ pc' = "done"
           /\ last'.id = 1 => result' = [tag |-> "Ok", chain |-> "Mainnet"]
           /\ last'.id = 5 => result' = [tag |-> "Ok", chain |-> "Goerli"]
           /\ last'.id \notin { 1, 5 } =>
                  result' = [tag |-> "Err",
                             error |-> [kind |-> "UnsupportedChain", id |-> last'.id]]
           /\ RetryLocalsUnchanged
    /\ pc = "done" /\ last.tag = "Ok" /\ pc' # "done" =>
           pc' = "calling" /\ calls' = 1 /\ sleeps' = << >> /\ result' = None

C3_ChainIdAccepted == [][C3_SuccessStep]_vars

\* an unsupported chain id was reported after two transient failures
C3_Witness ==
    /\ pc = "done"
    /\ last = [tag |-> "Ok", id |-> 4]
    /\ result.tag = "Err"
    /\ result.error.kind = "UnsupportedChain"
    /\ calls = 3
    /\ Len(sleeps) = 2

\* C4: an upstream error that is neither Unreachable nor HTTP 429/502/503/504 is
\* returned at once, with no backoff step taken, no sleep and no further call
C4_FatalStep ==
    /\ CallResolved /\ last'.tag = "Err" /\ ~TransientError(last'.error) =>
           /\ pc' = "done"
           /\ result' = [tag |-> "Err", error |-> last'.error]
           /\ RetryLocalsUnchanged
    /\ pc = "done" /\ last.tag = "Err" /\ pc' # "done" =>
           pc' = "calling" /\ calls' = 1 /\ sleeps' = << >> /\ result' = None

C4_FatalPropagated == [][C4_FatalStep]_vars

\* HTTP 500 was returned as the error after one transient failure
C4_Witness ==
    /\ pc = "done"
    /\ last = [tag |-> "Err", error |-> [kind |-> "TransportCode", code |-> 500]]
    /\ result = [tag |-> "Err", error |-> [kind |-> "TransportCode", code |-> 500]]
    /\ calls = 2
    /\ Len(sleeps) = 1

\* the task was cancelled during the backoff sleep: every call made was followed
\* by a sleep
CancelledAsleep == pc = "cancelled" /\ Len(sleeps) = calls

\* C5: cancelling the task during the backoff sleep stops the sleep and the loop:
\* the invocation issues no further call and reports neither a chain nor an error
C5_CancelStep ==
    /\ pc = "sleeping" /\ pc' = "cancelled" =>
           result' = None /\ last' = last /\ RetryLocalsUnchanged
    /\ CancelledAsleep =>
           /\ result = None
           /\ \/ UNCHANGED retryVars
              \/ pc' = "calling" /\ calls' = 1 /\ sleeps' = << >> /\ result' = None

C5_CancellationSafe == [][C5_CancelStep]_vars

\* the task was cancelled in its second backoff sleep
C5_Witness ==
    /\ CancelledAsleep
    /\ calls = 2
    /\ last.tag = "Err"

(***************************************************************************)
(* Properties of starknet_getEvents                                        *)
(***************************************************************************)

\* the stored event e carries one of the listed keys, at whatever position
CarriesListedKey(e, keys) ==
    \E i \in DOMAIN e.keys : \E j \in DOMAIN keys : e.keys[i] = keys[j]

\* e lies in the block range and has the address the filter f asks for
RangeAndAddress(e, f) ==
    /\ f.from_block = None \/ f.from_block.v <= e.block_number
    /\ f.to_block = None \/ e.block_number <= f.to_block.v
    /\ f.address = None \/ f.address.v = e.from_address

\* the positions of the stored events that match f
MatchingPositions(f) ==
    { n \in DOMAIN events :
        /\ RangeAndAddress(events[n], f)
        /\ f.keys = << >> \/ CarriesListedKey(events[n], f.keys) }

RECURSIVE InOrder(_)
\* the elements of a set of positions, ascending
InOrder(S) ==
    IF S = { } THEN << >>
    ELSE LET least == CHOOSE n \in S : \A m \in S : n <= m
         IN << least >> \o InOrder(S \ { least })

\* the full ordered list of the events that match f
FullMatchList(f) ==
    LET at == InOrder(MatchingPositions(f))
    IN [ k \in DOMAIN at |-> EmittedEvent(events[at[k]]) ]

\* the reply is a page of events
PageReply == request # None /\ reply.tag = "Ok"

\* the reply holds every match: it is page 0 and the last page
CompleteReply == PageReply /\ request.page_number = 0 /\ reply.is_last_page

\* C6: the events of pages 0, 1, 2, ... up to the first page with is_last_page,
\* concatenated, are the full ordered list of matches
C6_PagesReconstruct ==
    walk.tag = "Walk" /\ reply.tag = "Ok" /\ reply.is_last_page =>
        walk.acc = FullMatchList(request)

\* a key filter with three matches was read in two pages of size 2
C6_Witness ==
    /\ walk.tag = "Walk"
    /\ reply.tag = "Ok"
    /\ reply.is_last_page
    /\ request.keys # << >>
    /\ request.page_size = 2
    /\ request.page_number = 1
    /\ Len(reply.events) = 1
    /\ Len(walk.acc) = 3

\* C7: a reply holds matches[skip .. skip + page_size) for skip = page_number *
\* page_size, is_last_page says whether skip + page_size >= the number of
\* matches, and page_number is the requested one
C7_PageContents ==
    PageReply =>
        LET matches == FullMatchList(request)
            skip == request.page_number * request.page_size
            left == IF skip >= Len(matches) THEN 0 ELSE Len(matches) - skip
        IN /\ Len(reply.events) = Min(request.page_size, left)
           /\ \A k \in DOMAIN reply.events : reply.events[k] = matches[skip + k]
           /\ reply.is_last_page = (skip + request.page_size >= Len(matches))
           /\ reply.page_number = request.page_number

\* a page that ends exactly at the last match
C7_Witness ==
    /\ PageReply
    /\ request.page_number = 1
    /\ request.page_size = 2
    /\ Len(FullMatchList(request)) = 4
    /\ Len(reply.events) = 2
    /\ reply.is_last_page

\* C8: a page_size above the limit fails with code 31 and max_page_size = the
\* limit, whatever the filter and the store hold, and carries no events; a
\* page_size equal to the limit is served
C8_PageSizeLimit ==
    request # None =>
        /\ request.page_size > PAGE_SIZE_LIMIT =>
               /\ reply.tag = "Err"
               /\ reply.code = 31
               /\ reply.data = [max_page_size |-> PAGE_SIZE_LIMIT]
               /\ "events" \notin DOMAIN reply
        /\ request.page_size = PAGE_SIZE_LIMIT => reply.tag = "Ok"

\* an oversized request with a key filter against a store that holds matches
C8_Witness ==
    /\ request # None
    /\ request.page_size = PAGE_SIZE_LIMIT + 1
    /\ request.keys # << >>
    /\ FullMatchList(request) # << >>
    /\ reply.tag = "Err"

Returned == { reply.events[k] : k \in DOMAIN reply.events }

\* C10: with a flat list of keys an event matches when one of its keys, at any
\* position, is listed, block range and address permitting: a filter holding
\* only the key an event carries at position 1 returns that event, and a filter
\* listing position-0 keys that no other event carries returns exactly the
\* events with those keys
C10_FlatKeys ==
    CompleteReply /\ request.keys # << >> =>
        /\ \A n \in DOMAIN events :
               EmittedEvent(events[n]) \in Returned <=>
                   /\ RangeAndAddress(events[n], request)
                   /\ CarriesListedKey(events[n], request.keys)
        /\ Len(request.keys) = 1 =>
               \A n \in DOMAIN events :
                   /\ Len(events[n].keys) >= 2
                   /\ events[n].keys[2] = request.keys[1]
                   /\ RangeAndAddress(events[n], request)
                   => EmittedEvent(events[n]) \in Returned

\* the test's fully specified filter: block range and address of one stored
\* event and the key it carries at position 1 return that event alone
C10_Witness ==
    /\ CompleteReply
    /\ events = TestStore
    /\ request.from_block = [tag |-> "Some", v |-> 0]
    /\ request.to_block = [tag |-> "Some", v |-> 0]
    /\ request.address = [tag |-> "Some", v |-> 1]
    /\ request.keys = << DEADBEEF >>
    /\ reply.events = << EmittedEvent(StoredEvent(1)) >>

\* the filter f constrains neither block range, address nor keys
EmptyFilter(f) ==
    f.from_block = None /\ f.to_block = None /\ f.address = None /\ f.keys = << >>

\* (block_number, transaction_index, event_index) of a precedes that of b
Precedes(a, b) ==
    \/ a.block_number < b.block_number
    \/ /\ a.block_number = b.block_number
       /\ \/ a.transaction_index < b.transaction_index
          \/ /\ a.transaction_index = b.transaction_index
             /\ a.event_index < b.event_index

\* the stored event a returned event was projected from
Stored(ev) == events[CHOOSE n \in DOMAIN events : EmittedEvent(events[n]) = ev]

\* the returned events evs stem from stored events in strictly ascending order
Ascending(evs) ==
    \A k \in DOMAIN evs : \A l \in DOMAIN evs :
        k < l => /\ \E n \in DOMAIN events : EmittedEvent(events[n]) = evs[k]
                 /\ \E n \in DOMAIN events : EmittedEvent(events[n]) = evs[l]
                 /\ Precedes(Stored(evs[k]), Stored(evs[l]))

\* C11: with empty keys, no address and no block bounds every stored event
\* matches, in ascending (block_number, transaction_index, receipt position)
\* order; page 0 of a page_size that is at least the number of stored events
\* holds all of them and is the last page
C11_EmptyFilter ==
    PageReply /\ EmptyFilter(request) =>
        /\ Ascending(reply.events)
        /\ request.page_number = 0 /\ request.page_size >= Len(events) =>
               /\ reply.events = [ n \in DOMAIN events |-> EmittedEvent(events[n]) ]
               /\ reply.is_last_page

\* the test's empty filter: page 0 of size NUM_TRANSACTIONS over the test store
C11_Witness ==
    /\ PageReply
    /\ EmptyFilter(request)
    /\ events = TestStore
    /\ request.page_number = 0
    /\ request.page_size = NUM_TRANSACTIONS
    /\ Len(reply.events) = NUM_TRANSACTIONS
    /\ reply.is_last_page

\* C12: the events of a page are in strictly ascending (block_number,
\* transaction_index, receipt position) order, and so are the pages read one
\* after the other: the last event of a page precedes the first of the next
C12_AscendingOrder ==
    /\ PageReply => Ascending(reply.events)
    /\ walk.tag = "Walk" /\ reply.tag = "Ok" => Ascending(walk.acc)

\* two events of one receipt were returned on consecutive pages
C12_Witness ==
    /\ walk.tag = "Walk"
    /\ reply.tag = "Ok"
    /\ request.page_number = 1
    /\ Len(walk.acc) >= 2
    /\ reply.events # << >>
    /\ LET before == Stored(walk.acc[Len(walk.acc) - Len(reply.events)])
           first == Stored(reply.events[1])
       IN /\ before.block_number = first.block_number
          /\ before.transaction_index = first.transaction_index
          /\ before.event_index < first.event_index

\* C14: a returned event lies in the inclusive block range [from_block,
\* to_block], an absent bound not constraining, and has the filter's address if
\* one is given; with from_block = to_block = n and nothing else constrained the
\* matches are the events of block n
C14_RangeAndAddress ==
    PageReply =>
        /\ \A k \in DOMAIN reply.events :
               /\ request.from_block # None =>
                      reply.events[k].block_number >= request.from_block.v
               /\ request.to_block # None =>
                      reply.events[k].block_number <= request.to_block.v
               /\ request.address # None =>
                      reply.events[k].from_address = request.address.v
        /\ /\ CompleteReply
           /\ request.from_block # None
           /\ request.to_block = request.from_block
           /\ request.address = None
           /\ request.keys = << >>
           => Returned = { EmittedEvent(events[n]) :
                             n \in { m \in DOMAIN events :
                                       events[m].block_number = request.from_block.v } }

\* the test's filter by block: from_block = to_block = 1 over the test store
\* returns the events of block 1
C14_Witness ==
    /\ CompleteReply
    /\ events = TestStore
    /\ request.from_block = [tag |-> "Some", v |-> 1]
    /\ request.to_block = [tag |-> "Some", v |-> 1]
    /\ request.address = None
    /\ request.keys = << >>
    /\ Len(reply.events) = TRANSACTIONS_PER_BLOCK
    /\ \A k \in DOMAIN reply.events : reply.events[k].block_number = 1

(***************************************************************************)
(* Properties of starknet_getStorageAt's key validation                    *)
(***************************************************************************)

\* the handler of a request has returned its reply
Answered == rpc_request # None /\ rpc_reply # None

\* a starknet_getStorageAt request has been answered
StorageAtReply == Answered /\ rpc_request.method = "starknet_getStorageAt"

\* every stored block of setup_storage is committed
FullStorage == storage = StarknetBlocks

\* C15: starknet_getStorageAt with a key equal to the field modulus, or with
\* any larger 256-bit value, is answered InvalidKey (code 23), whichever
\* contract and block the request names, existing ones included.
C15_KeyNotBelowModulus ==
    StorageAtReply /\ ~LessThan(rpc_request.key, FIELD_MODULUS) =>
        rpc_reply = INVALID_KEY

\* tests::get_storage_at::key_is_field_modulus
C15_Witness ==
    /\ FullStorage
    /\ StorageAtReply
    /\ rpc_request.key = FIELD_MODULUS
    /\ rpc_request.contract_address = "contract 0"
    /\ rpc_request.block_hash = Latest
    /\ rpc_reply.code = 23

\* C16 as the specification words it: every key below the field modulus is
\* accepted, that is never answered InvalidKey.
C16_BelowModulusAccepted ==
    StorageAtReply /\ LessThan(rpc_request.key, FIELD_MODULUS) =>
        rpc_reply # INVALID_KEY

\* C16: every key below 2^251 is accepted by starknet_getStorageAt, that is
\* never answered InvalidKey.
C16_Below251BitsAccepted ==
    StorageAtReply /\ LessThan(rpc_request.key, KEY_252_BITS) =>
        rpc_reply # INVALID_KEY

\* the largest key of 251 bits, read from a deployed contract
C16_Witness ==
    /\ FullStorage
    /\ StorageAtReply
    /\ rpc_request.key = << 0, 7 >> \o Fs(62)
    /\ rpc_request.contract_address = "contract 1"
    /\ rpc_request.block_hash = Latest
    /\ rpc_reply = Ok(ZERO_VALUE)

\* C17: starknet_getStorageAt with the key 2^251, and with every key from
\* 2^251 up to the field modulus, is answered InvalidKey (code 23): a key
\* that needs 252 bits is refused although it is below the modulus.
C17_Key252Bits ==
    /\ StorageAtReply /\ rpc_request.key = KEY_252_BITS => rpc_reply = INVALID_KEY
    /\ StorageAtReply
       /\ ~LessThan(rpc_request.key, KEY_252_BITS)
       /\ LessThan(rpc_request.key, FIELD_MODULUS) => rpc_reply.tag = "Err" /\ rpc_reply.code = 23

\* tests::get_storage_at::key_is_less_than_modulus_but_252_bits
C17_Witness ==
    /\ FullStorage
    /\ StorageAtReply
    /\ rpc_request.key = KEY_252_BITS
    /\ LessThan(rpc_request.key, FIELD_MODULUS)
    /\ rpc_request.contract_address = "contract 0"
    /\ rpc_request.block_hash = Latest
    /\ rpc_reply = INVALID_KEY

(***************************************************************************)
(* Properties of block references                                          *)
(***************************************************************************)

HashStored(h) == \E n \in DOMAIN storage : storage[n].hash = h
NumberStored(k) == \E n \in DOMAIN storage : storage[n].number = k

\* a request with a block_hash / block_number argument has been answered
ByHashReply == Answered /\ "block_hash" \in DOMAIN rpc_request
ByNumberReply == Answered /\ "block_number" \in DOMAIN rpc_request

\* the reference of the answered request names a hash (a height) explicitly
HashReference == ByHashReply /\ rpc_request.block_hash.tag = "Hash"
NumberReference == ByNumberReply /\ rpc_request.block_number.tag = "Number"

NoSuchBlock == { INVALID_BLOCK_HASH, INVALID_BLOCK_NUMBER }

ServedFromStorage ==
    /\ rpc_request.method # "starknet_call"
    /\ "key" \in DOMAIN rpc_request => LessThan(rpc_request.key, KEY_252_BITS)

NewestStored ==
    storage[CHOOSE n \in DOMAIN storage :
                \A m \in DOMAIN storage : storage[m].number <= storage[n].number]

\* the answered request, with the reference `ref` in place of its own
WithReference(ref) ==
    IF "block_hash" \in DOMAIN rpc_request
    THEN [rpc_request EXCEPT !.block_hash = ref]
    ELSE [rpc_request EXCEPT !.block_number = ref]

\* C19: in the methods served from local storage, by hash and by number
\* alike, the tag latest is answered exactly as a reference to the stored
\* block of maximum height is: getBlockBy* return that block's hash and
\* number, blockNumber returns its height, and latest is answered "no such
\* block" only when no block is stored.
C19_LatestIsNewest ==
    /\ (ByHashReply \/ ByNumberReply)
       /\ BlockReference(rpc_request) = Latest
       /\ rpc_request.method # "starknet_call"
       /\ storage # << >> =>
           /\ rpc_reply =
                  Handle(storage, sequencer,
                         WithReference(IF ByHashReply
                                       THEN [tag |-> "Hash", hash |-> NewestStored.hash]
                                       ELSE [tag |-> "Number",
                                             number |-> NewestStored.number]))
           /\ rpc_reply \notin NoSuchBlock
           /\ rpc_request.method \in { "starknet_getBlockByHash",
                                       "starknet_getBlockByNumber" } =>
                  /\ rpc_reply.tag = "Ok"
                  /\ rpc_reply.value.block_hash = NewestStored.hash
                  /\ rpc_reply.value.block_number = Len(storage) - 1
    /\ Answered /\ rpc_request.method = "starknet_blockNumber" =>
           /\ storage # << >> => rpc_reply = Ok(NewestStored.number)
           /\ rpc_reply.tag = "Err" => storage = << >>
    /\ (ByHashReply \/ ByNumberReply)
       /\ BlockReference(rpc_request) = Latest
       /\ rpc_reply \in NoSuchBlock => storage = << >>

\* tests::get_block_by_number::latest::positional_args::all
C19_Witness ==
    /\ FullStorage
    /\ ByNumberReply
    /\ rpc_request.method = "starknet_getBlockByNumber"
    /\ rpc_request.block_number = Latest
    /\ rpc_request.requested_scope = [tag |-> "Some", v |-> "FullTransactions"]
    /\ rpc_reply.tag = "Ok"
    /\ rpc_reply.value.block_hash = "latest"
    /\ rpc_reply.value.block_number = 2
    /\ Len(rpc_reply.value.transactions.t) = 3

\* a request with the tag pending has been answered
PendingReply ==
    (ByHashReply \/ ByNumberReply) /\ BlockReference(rpc_request) = Pending

TransactionAtIndexReply ==
    /\ Answered
    /\ rpc_request.method \in { "starknet_getTransactionByBlockHashAndIndex",
                                "starknet_getTransactionByBlockNumberAndIndex" }

\* the stored blocks the reference of the answered request names
ReferencedBlocks ==
    LET ref == BlockReference(rpc_request)
    IN { n \in DOMAIN storage :
           \/ ref.tag = "Hash" /\ storage[n].hash = ref.hash
           \/ ref.tag = "Number" /\ storage[n].number = ref.number }

\* C21: starknet_getTransactionByBlockHashAndIndex and ...NumberAndIndex,
\* for a hash or height of a stored block, return the transaction at the
\* index when the index is less than the block's transaction count and
\* InvalidTxIndex (27) when it is not; for a hash or height that is not
\* stored they return InvalidBlockHash / InvalidBlockNumber, whatever the
\* index.
C21_TransactionAtIndex ==
    TransactionAtIndexReply /\ BlockReference(rpc_request).tag \in { "Hash", "Number" } =>
        /\ \A n \in ReferencedBlocks :
               IF rpc_request.index < Len(storage[n].transactions)
               THEN rpc_reply =
                        Ok([txn_hash |-> storage[n].transactions[rpc_request.index + 1]])
               ELSE rpc_reply = INVALID_TX_INDEX
        /\ ReferencedBlocks = {} =>
               rpc_reply = IF ByHashReply THEN INVALID_BLOCK_HASH
                           ELSE INVALID_BLOCK_NUMBER

\* tests::get_transaction_by_block_hash_and_index::invalid_transaction_index
C21_Witness ==
    /\ FullStorage
    /\ TransactionAtIndexReply
    /\ ByHashReply
    /\ rpc_request.block_hash = [tag |-> "Hash", hash |-> "genesis"]
    /\ rpc_request.index = 123
    /\ rpc_reply.code = 27

\* the transactions stored so far, as their hashes
StoredTransactions ==
    UNION { { storage[n].transactions[i] : i \in DOMAIN storage[n].transactions } :
            n \in DOMAIN storage }

\* C22: starknet_getTransactionByHash and starknet_getTransactionReceipt
\* return InvalidTxHash (25) for a hash that no stored transaction has, and
\* otherwise the transaction / the receipt whose hash is the requested one.
C22_TransactionByHash ==
    Answered /\ "transaction_hash" \in DOMAIN rpc_request =>
        IF rpc_request.transaction_hash \in StoredTransactions
        THEN rpc_reply.tag = "Ok" /\ rpc_reply.value.txn_hash = rpc_request.transaction_hash
        ELSE rpc_reply = INVALID_TX_HASH

\* tests::get_transaction_receipt::invalid
C22_Witness ==
    /\ FullStorage
    /\ Answered
    /\ rpc_request.method = "starknet_getTransactionReceipt"
    /\ rpc_request.transaction_hash = "not found"
    /\ rpc_reply.code = 25

(***************************************************************************)
(* Properties of the binding of params                                     *)
(***************************************************************************)

\* the params of a request have been bound to the method's NamedArgs
Bound == rpc_request # None /\ rpc_request.method \notin IgnoresParams

\* the declared names of the bound request's method
BoundNames ==
    { NamedArgs(rpc_request.method)[i] : i \in DOMAIN NamedArgs(rpc_request.method) }

\* C23: the positional and the named form of the same arguments bind to the
\* same values and give the same reply: what a registered method has bound
\* is what was sent, either form of it binds to that, the reply is the
\* handler's reply to either, and an optional field that was not sent is
\* bound to its default.
C23_PositionalAndNamedAgree ==
    Bound =>
        LET r == rpc_request
            m == rpc_request.method
        IN /\ wire.params.kind = "positional" => wire.params = positional(r)
           /\ wire.params.kind = "named" =>
                  named(r).map = [f \in DOMAIN wire.params.map \cap BoundNames |->
                                     wire.params.map[f]]
           /\ bind(m, positional(r)) = r
           /\ bind(m, named(r)) = r
           /\ \A f \in BoundNames \cap SerdeDefault :
                  (r[f] = None) <=>
                      IF wire.params.kind = "positional"
                      THEN FieldIndex(m, f) > Len(wire.params.list)
                      ELSE f \notin DOMAIN wire.params.map
           /\ rpc_reply # None =>
                  /\ rpc_reply = Handle(storage, sequencer, bind(m, positional(r)))
                  /\ rpc_reply = Handle(storage, sequencer, bind(m, named(r)))

\* getBlockByHash was sent a list of two elements and returned the block
\* with its full transactions
C23_Witness ==
    /\ Bound
    /\ rpc_reply # None
    /\ rpc_request.method = "starknet_getBlockByHash"
    /\ wire.params.kind = "positional"
    /\ Len(wire.params.list) = 2
    /\ rpc_reply.tag = "Ok"
    /\ rpc_reply.value.transactions.tag = "Full"

(***************************************************************************)
(* Properties of the block reply                                           *)
(***************************************************************************)

\* a getBlockByHash or getBlockByNumber request was answered with a block
BlockReply ==
    /\ Answered
    /\ rpc_request.method \in { "starknet_getBlockByHash", "starknet_getBlockByNumber" }
    /\ rpc_reply.tag = "Ok"

\* the transactions of the block the reply is about
TransactionsOfBlock ==
    IF PendingReply THEN sequencer.value.transactions
    ELSE block_by_hash(storage, rpc_reply.value.block_hash).transactions

\* the form of the transaction list each scope selects
FormOf(scope) ==
    IF scope = None \/ scope.v = "TransactionHashes" THEN "HashesOnly"
    ELSE IF scope.v = "FullTransactions" THEN "Full"
    ELSE "FullWithReceipts"

\* C24: a block reply lists as many transactions as the block has, whatever
\* the scope, one entry per transaction in block order, in the form the
\* scope selects: hashes when the scope is absent or TransactionHashes, full
\* transactions for FullTransactions, full transactions with their receipts
\* for FullTransactionsAndReceipts.
C24_ScopeSelectsForm ==
    BlockReply =>
        LET txs == TransactionsOfBlock
            listed == rpc_reply.value.transactions
            form == FormOf(rpc_request.requested_scope)
        IN /\ listed.tag = form
           /\ Len(listed.t) = Len(txs)
           /\ \A i \in DOMAIN txs :
                  CASE form = "HashesOnly" -> listed.t[i] = txs[i]
                    [] form = "Full" ->
                           /\ DOMAIN listed.t[i] = { "txn_hash" }
                           /\ listed.t[i].txn_hash = txs[i]
                    [] form = "FullWithReceipts" ->
                           /\ listed.t[i].txn_hash = txs[i]
                           /\ listed.t[i].receipt.transaction_hash = txs[i]

\* the latest block of setup_storage, asked by hash with receipts: three
\* transactions
C24_Witness ==
    /\ BlockReply
    /\ rpc_request.method = "starknet_getBlockByHash"
    /\ rpc_request.block_hash = [tag |-> "Hash", hash |-> "latest"]
    /\ rpc_request.requested_scope = [tag |-> "Some", v |-> "FullTransactionsAndReceipts"]
    /\ Len(rpc_reply.value.transactions.t) = 3

(***************************************************************************)
(* Properties of the method table                                          *)
(***************************************************************************)

\* the server has looked the method of the request up
Dispatched == wire # None /\ Len(stages) > 1

\* C25: the method table never contains getStateUpdateByHash,
\* pendingTransactions or protocolVersion; a request to one of them, or to
\* any other name that is not registered, is answered "method not found"
\* and reaches no handler: no params are bound, nothing is resolved.
C25_MethodNotFound ==
    /\ RegisteredMethods \cap { "starknet_getStateUpdateByHash",
                                "starknet_pendingTransactions",
                                "starknet_protocolVersion" } = {}
    /\ Dispatched /\ wire.method \notin RegisteredMethods =>
           /\ rpc_reply = METHOD_NOT_FOUND
           /\ rpc_request = None
           /\ stages = << "Received", "Serialized" >>
    /\ Dispatched /\ wire.method \in RegisteredMethods => rpc_reply # METHOD_NOT_FOUND

\* starknet_pendingTransactions was called and answered
C25_Witness ==
    /\ Dispatched
    /\ wire.method = "starknet_pendingTransactions"
    /\ rpc_reply = METHOD_NOT_FOUND

(***************************************************************************)
(* Properties of the request state machine                                 *)
(***************************************************************************)

\* the stages of a request from its arrival to the response, by the outcome
\* of the handler
FullPath(outcome) == << "Received", "ParamsBound", "Resolving", outcome, "Serialized" >>

\* the stages of a request that is answered without a handler
ShortPath == << "Received", "Serialized" >>

\* s is the beginning of t
IsPrefix(s, t) == Len(s) <= Len(t) /\ s = SubSeq(t, 1, Len(s))

\* the stages so far are the beginning of the path through the handler
OnFullPath == IsPrefix(stages, FullPath("Success")) \/ IsPrefix(stages, FullPath("DomainError"))

\* the request has its response exactly when it reached an outcome
OneResponse ==
    /\ rpc_reply # None <=> Len(stages) > 3 \/ stages = ShortPath
    /\ rpc_reply # None /\ stages # ShortPath =>
           stages[4] = (IF rpc_reply.tag = "Ok" THEN "Success" ELSE "DomainError")
    /\ rpc_request # None <=> Len(stages) > 1 /\ stages # ShortPath

\* the request cannot reach a handler: no such method, or params that do
\* not bind
Unbindable ==
    /\ wire # None
    /\ \/ wire.method \notin RegisteredMethods
       \/ "tag" \in DOMAIN bind(wire.method, wire.params)

\* C26 as stated: every request moves through Received, ParamsBound,
\* Resolving, then exactly one of Success or DomainError, then Serialized,
\* in that order, without revisiting a stage, and has exactly one response.
C26_EveryRequestFullPath == OnFullPath /\ OneResponse

\* C26: a request to a registered method whose params bind moves through
\* Received, ParamsBound, Resolving, then exactly one of Success or
\* DomainError (the handler's Ok or Err), then Serialized, in that order; a
\* request to a name that is not registered or with params that do not bind
\* moves from Received to Serialized with a protocol error, without
\* ParamsBound or Resolving. No stage is revisited, resolution never starts
\* before the params are bound, and each request has exactly one response.
C26_RequestPath ==
    /\ OneResponse
    /\ IF Unbindable THEN IsPrefix(stages, ShortPath) ELSE OnFullPath
    /\ \A i \in DOMAIN stages : \A j \in DOMAIN stages : stages[i] = stages[j] => i = j

\* a getStorageAt request went all the way through a domain error
C26_Witness ==
    /\ stages = FullPath("DomainError")
    /\ rpc_request.method = "starknet_getStorageAt"
    /\ rpc_reply.tag = "Err"

(***************************************************************************)
(* Properties of requests that do not fit the schema                       *)
(***************************************************************************)

\* the params fit the schema of the method: nothing for a method that takes
\* none; otherwise every field without default is given, nothing is given
\* beyond the declared fields of a list, and every declared field given has
\* a value of its type
FitsSchema(method, params) ==
    LET fields == NamedArgs(method)
        names == { fields[i] : i \in DOMAIN fields }
    IN IF fields = << >>
       THEN \/ params.kind = "absent"
            \/ params.kind = "positional" /\ params.list = << >>
       ELSE CASE params.kind = "absent" -> FALSE
              [] params.kind = "positional" ->
                     /\ Len(params.list) <= Len(fields)
                     /\ \A i \in DOMAIN fields :
                            IF i <= Len(params.list)
                            THEN Accepts(fields[i], params.list[i])
                            ELSE fields[i] \in SerdeDefault
              [] params.kind = "named" ->
                     \A f \in names :
                         IF f \in DOMAIN params.map
                         THEN Accepts(f, params.map[f])
                         ELSE f \in SerdeDefault

\* the codes of the domain errors
DomainCodes == { 20, 21, 22, 23, 24, 25, 26, 27, 31 }

\* C27: a request to a registered method whose params do not fit the
\* method's schema (a mandatory field missing, a value of the wrong type,
\* params given to a method that takes none) fails at binding with the
\* protocol's parse error, before the handler runs, and never with a domain
\* code.
C27_MismatchFailsAtBinding ==
    /\ Dispatched
    /\ wire.method \in RegisteredMethods
    /\ ~FitsSchema(wire.method, wire.params)
    => /\ rpc_reply = INVALID_PARAMS
       /\ rpc_reply.code \notin DomainCodes
       /\ rpc_request = None
       /\ stages = ShortPath

(***************************************************************************)
(* Properties of the domain errors                                         *)
(***************************************************************************)

\* a handler has returned an RpcError (the internal error is none)
DomainErrorReply == Answered /\ rpc_reply.tag = "Err" /\ rpc_reply # INTERNAL_ERROR

\* the kinds of domain error, by their code
KindOf ==
    [c \in DomainCodes |->
        CASE c = 20 -> "Contract not found"
          [] c = 21 -> "Invalid message selector"
          [] c = 22 -> "Invalid call data"
          [] c = 23 -> "Invalid storage key"
          [] c = 24 -> "Invalid block hash"
          [] c = 25 -> "Invalid transaction hash"
          [] c = 26 -> "Invalid block number"
          [] c = 27 -> "Invalid transaction index in a block"
          [] c = 31 -> "Requested page size is too big"]

\* C28: every domain error a method returns has a code of the closed set
\* {20, .., 27, 31}; each kind of error has one code and each code one
\* kind; the error carries data exactly when it is RequestedPageSizeTooBig
\* (31), and then the data is the largest page size.
C28_ClosedErrorCodes ==
    /\ \A c \in DomainCodes : \A d \in DomainCodes : KindOf[c] = KindOf[d] => c = d
    /\ DomainErrorReply =>
           /\ rpc_reply.code \in DomainCodes
           /\ rpc_reply.message = KindOf[rpc_reply.code]
           /\ "data" \in DOMAIN rpc_reply <=> rpc_reply.code = 31
           /\ rpc_reply.code = 31 => rpc_reply.data = [max_page_size |-> PAGE_SIZE_LIMIT]

\* getEvents was asked for a page one larger than the limit
C28_Witness ==
    /\ DomainErrorReply
    /\ rpc_request.method = "starknet_getEvents"
    /\ rpc_request.filter.page_size = PAGE_SIZE_LIMIT + 1
    /\ rpc_reply.code = 31

(***************************************************************************)
(* Properties of the status cell and its lock                              *)
(***************************************************************************)

\* the status most recently written, False when nothing has been written
LatestWritten == IF written = << >> THEN SyncingFalse ELSE written[Len(written)]

\* the statuses written so far, and the initial one
EverWritten == { written[i] : i \in DOMAIN written } \cup { SyncingFalse }

\* request r is a syncing query that has read the cell
HasRead(r) ==
    /\ query[r].method = "starknet_syncing"
    /\ query[r].pc \in { "cloned", "done" }

\* C29: a syncing query returns the status most recently written to the
\* cell, False when nothing has been written: while the query still holds
\* its read guard its reply is the latest status written, and under any
\* interleaving with writes the reply is one of the statuses written or the
\* initial False, never a mixture of two of them.
C29_SyncingReturnsWrittenStatus ==
    \A r \in Requests :
        HasRead(r) =>
            /\ query[r].reply.tag = "Ok"
            /\ query[r].reply.value \in EverWritten
            /\ query[r].pc = "cloned" => query[r].reply.value = LatestWritten

\* a query read a status the sync engine wrote, and the engine has since
\* written another one
C29_Witness ==
    \E r \in Requests :
        /\ HasRead(r)
        /\ Len(written) = 2
        /\ query[r].reply.value = written[1]
        /\ query[r].reply.value.tag = "Status"
        /\ LatestWritten # written[1]

ReferredHeight ==
    IF rpc_request.block_hash = Latest THEN Len(storage) - 1
    ELSE block_by_hash(storage, rpc_request.block_hash.hash).number

\* where setup_storage writes the key of the contract in the blocks up to
\* height n: << block, update, storage update >>
WritesUpTo(contract, key, n) ==
    { w \in (1..n + 1) \X (1..2) \X (1..1) :
        /\ w[2] \in DOMAIN ContractUpdates[w[1]]
        /\ ContractUpdates[w[1]][w[2]].address = contract
        /\ w[3] \in DOMAIN ContractUpdates[w[1]][w[2]].storage_updates
        /\ ContractUpdates[w[1]][w[2]].storage_updates[w[3]].address = key }

\* w was written after v
Later(w, v) ==
    \/ w[1] > v[1]
    \/ w[1] = v[1] /\ w[2] > v[2]
    \/ w[1] = v[1] /\ w[2] = v[2] /\ w[3] > v[3]

\* the value the last of these writes stored, zero when there is none
LastValue(writes) ==
    IF writes = {} THEN ZERO_VALUE
    ELSE LET w == CHOOSE x \in writes : \A y \in writes \ { x } : Later(x, y)
         IN ContractUpdates[w[1]][w[2]].storage_updates[w[3]].value

\* C31: getStorageAt returns the value the key holds in the state committed
\* at the referenced block: the last value written at or before that block,
\* not the newest one. With the key written twice in block 1 and again in
\* block 2, a query at block 1 returns the second value of block 1 and a
\* query at latest the value of block 2.
C31_ValueAtReferencedBlock ==
    StorageAtReply /\ rpc_reply.tag = "Ok" /\ rpc_request.block_hash # Pending =>
        rpc_reply.value =
            LastValue(WritesUpTo(rpc_request.contract_address, rpc_request.key,
                                 ReferredHeight))

\* tests::get_storage_at::deployment_block: block 1 is asked while block 2
\* is stored
C31_Witness ==
    /\ FullStorage
    /\ StorageAtReply
    /\ rpc_request.contract_address = "contract 1"
    /\ rpc_request.key = storage_addr
    /\ rpc_request.block_hash = [tag |-> "Hash", hash |-> "block 1"]
    /\ rpc_reply = Ok("storage value 1")

\* the height of the block that deploys the contract in setup_storage:
\* contract 0 in block 0, contract 1 in block 1
DeployedAt == [c \in { "contract 0", "contract 1" } |-> IF c = "contract 0" THEN 0 ELSE 1]

\* a getStorageAt request with a valid key and a reference other than pending
ValidKeyAtStoredState ==
    /\ StorageAtReply
    /\ StorageKeyValid(rpc_request.key)
    /\ rpc_request.block_hash # Pending

\* the request refers to a block that is stored
RefersToStored ==
    \/ rpc_request.block_hash = Latest /\ storage # << >>
    \/ rpc_request.block_hash.tag = "Hash"
       /\ block_by_hash(storage, rpc_request.block_hash.hash) # None

\* C32: with a valid key, getStorageAt returns ContractNotFound (20) when
\* the contract address is unknown and when the referenced block precedes
\* the block that deploys the contract, and InvalidBlockHash (24) when the
\* referenced hash is not stored, whether the contract exists or not; a
\* contract deployed at or before the referenced block is found.
C32_ContractNotFound ==
    ValidKeyAtStoredState =>
        /\ rpc_request.block_hash.tag = "Hash" /\ ~RefersToStored =>
               rpc_reply = INVALID_BLOCK_HASH
        /\ RefersToStored =>
               IF /\ rpc_request.contract_address \in DOMAIN DeployedAt
                  /\ DeployedAt[rpc_request.contract_address] <= ReferredHeight
               THEN rpc_reply.tag = "Ok"
               ELSE rpc_reply = CONTRACT_NOT_FOUND

\* tests::get_storage_at::pre_deploy_block_hash: contract 1 at genesis
C32_Witness ==
    /\ FullStorage
    /\ ValidKeyAtStoredState
    /\ rpc_request.contract_address = "contract 1"
    /\ rpc_request.block_hash = [tag |-> "Hash", hash |-> "genesis"]
    /\ rpc_reply = CONTRACT_NOT_FOUND

(***************************************************************************)
(* Properties of the sleeps of retry_chain                                 *)
(***************************************************************************)

\* the sleep after the i-th transient failure of one invocation
SleepAfter(i) == IF i <= 5 THEN << 2, 10, 30, 120, 300 >>[i] ELSE 300

\* C33: within one retry_chain invocation the sleep after the i-th
\* transient failure is the i-th of 2s, 10s, 30s, 120s, 300s for i <= 5 and
\* 300s afterwards, so the sleeps never decrease and never exceed 300s;
\* every invocation starts again at 2s, whatever earlier invocations of the
\* task and concurrent invocations of other tasks have consumed.
C33_SleepSequence ==
    \A t \in Tasks :
        LET sleeps_t == tasks[t].sleeps
        IN /\ \A i \in DOMAIN sleeps_t : sleeps_t[i] = SleepAfter(i)
           /\ \A i \in DOMAIN sleeps_t : sleeps_t[i] <= 300
           /\ \A i \in DOMAIN sleeps_t : i > 1 => sleeps_t[i - 1] <= sleeps_t[i]
           /\ tasks[t].pc = "sleeping" => Len(sleeps_t) = tasks[t].calls
           /\ tasks[t].pc = "calling" => Len(sleeps_t) = tasks[t].calls - 1

\* one invocation has slept past the end of the list while the invocation
\* of another task sleeps for the first time
C33_Witness ==
    \E t \in Tasks : \E u \in Tasks :
        /\ Len(tasks[t].sleeps) = 6
        /\ tasks[t].sleeps[6] = 300
        /\ tasks[u].pc = "sleeping"
        /\ tasks[u].sleeps = << 2 >>

(***************************************************************************)
(* Properties of the order of calls within retry_chain                     *)
(***************************************************************************)

\* every call but the one in flight, or the one that ended the invocation,
\* failed transiently, was logged with its cause and the backoff chosen,
\* and was followed by that sleep
C34_EveryCallAccounted ==
    /\ pc = "calling" => Len(sleeps) = calls - 1
    /\ pc = "sleeping" => Len(sleeps) = calls
    /\ pc = "done" => Len(sleeps) = calls - 1
    /\ calls - Len(sleeps) \in { 0, 1 }
    /\ Len(logged) = Len(sleeps)
    /\ \A i \in DOMAIN logged :
           /\ TransientError(logged[i].reason)
           /\ logged[i].backoff = sleeps[i]

\* a call is issued when retry_chain is entered and when a sleep has
\* completed, and at no other point; the sleep begins in the step that logs
\* the failure
C34_CallIssued ==
    /\ calls' # calls =>
           \/ pc \in { "idle", "done", "cancelled" } /\ calls' = 1 /\ pc' = "calling"
           \/ pc = "sleeping" /\ calls' = calls + 1 /\ pc' = "calling"
    /\ pc # "sleeping" /\ pc' = "sleeping" =>
           /\ pc = "calling"
           /\ Len(logged') = Len(logged) + 1
           /\ logged'[Len(logged')].reason = last'.error

\* C34: within one retry_chain invocation the upstream calls are strictly
\* sequential: a new chain_id call is issued only after the previous call
\* has failed transiently, the failure has been logged with its cause and
\* the backoff chosen, and the backoff sleep has completed; at most one call
\* is in flight and no call is issued by anything but the loop itself.
C34_StrictlySequential == []C34_EveryCallAccounted /\ [][C34_CallIssued]_vars

\* the third call is in flight after two logged failures and two sleeps
C34_Witness ==
    /\ pc = "calling"
    /\ calls = 3
    /\ Len(logged) = 2
    /\ sleeps = << 2, 10 >>
    /\ logged[2].backoff = 10

(***************************************************************************)
(* Properties of the termination of retry_chain                            *)
(***************************************************************************)

\* the answer is a success or an error that is not transient
FinalAnswer(o) == o.tag = "Ok" \/ ~TransientError(o.error)

\* what retry_chain returns for a final answer
ResultOf(o) ==
    IF o.tag = "Err" THEN [tag |-> "Err", error |-> o.error]
    ELSE IF o.id = 1 THEN [tag |-> "Ok", chain |-> "Mainnet"]
    ELSE IF o.id = 5 THEN [tag |-> "Ok", chain |-> "Goerli"]
    ELSE [tag |-> "Err", error |-> [kind |-> "UnsupportedChain", id |-> o.id]]

\* an invocation that has returned has returned the result of a final
\* answer, and one that has not returned has no result
C35_ReturnedFinal ==
    /\ pc = "done" => FinalAnswer(last) /\ result = ResultOf(last)
    /\ pc # "done" => result = None
    /\ pc = "sleeping" => ~FinalAnswer(last)

\* the step in which a final answer arrives is the step in which the
\* invocation returns, and it returns in no other step
C35_ReturnsOnFinal ==
    /\ CallResolved /\ FinalAnswer(last') => pc' = "done" /\ result' = ResultOf(last')
    /\ CallResolved /\ ~FinalAnswer(last') => pc' = "sleeping"
    /\ pc # "done" /\ pc' = "done" => CallResolved /\ FinalAnswer(last')

\* C35: when the upstream answers a chain_id call with a success or with an
\* error that is not transient, and the task has not been cancelled, the
\* invocation terminates with the result of that answer; while every answer
\* is a transient failure the invocation reaches no final state.
C35_TerminatesOnFinalAnswer == []C35_ReturnedFinal /\ [][C35_ReturnsOnFinal]_vars

\* after MaxCalls - 1 transient failures the upstream reports chain id 5
C35_Witness ==
    /\ pc = "done"
    /\ calls = MaxCalls
    /\ Len(sleeps) = MaxCalls - 1
    /\ last = [tag |-> "Ok", id |-> 5]
    /\ result = [tag |-> "Ok", chain |-> "Goerli"]

(***************************************************************************)
(* Properties of BackoffStrategy and its iterators                         *)
(***************************************************************************)

\* the configured steps
ConfiguredSteps == { values[k] : k \in DOMAIN values }

\* C36: a BackoffStrategy is never built from an empty list of durations,
\* so every result of next() is one of the configured steps, and never a
\* zero duration that is not among them.
C36_NextYieldsConfiguredStep ==
    \A i \in IterIds :
        \A k \in DOMAIN outs[i] :
            /\ values # << >>
            /\ outs[i][k] \in ConfiguredSteps

\* the k-th duration an iterator over a list d1..dn yields when nothing
\* else has touched it
Yields(k) == IF k <= Len(values) THEN values[k] ELSE values[Len(values)]

\* what every iterator over a list d1..dn has yielded starts at d1 and
\* follows the list, however far the other iterators are
C37_FullSequenceEach ==
    values # << >> =>
        \A i \in IterIds : \A k \in DOMAIN outs[i] : outs[i][k] = Yields(k)

\* a call of next() leaves the list of durations and every other iterator
\* as they were
C37_OnlyOwnCursor ==
    /\ values' = values
    /\ \A i \in IterIds :
           outs'[i] # outs[i] =>
               \A j \in IterIds \ { i } : iters'[j] = iters[j] /\ outs'[j] = outs[j]
    /\ \A i \in IterIds : iters'[i] # iters[i] => outs'[i] # outs[i]

\* C37: BackoffIter::next changes only the cursor of the iterator it is
\* called on: the strategy's list of durations is never modified, and two
\* iterators of the same strategy advance independently, each yielding the
\* full sequence from d1 whatever the other has consumed.
C37_IteratorsIndependent == []C37_FullSequenceEach /\ [][C37_OnlyOwnCursor]_vars

\* one iterator has run past the end of a list of three different
\* durations while another has yielded only the first
C37_Witness ==
    \E i \in IterIds : \E j \in IterIds :
        /\ Len(values) = 3
        /\ values[1] # values[2] /\ values[2] # values[3] /\ values[1] # values[3]
        /\ Len(outs[i]) > 3
        /\ outs[j] = << values[1] >>

(***************************************************************************)
(* C38: requests are read-only                                             *)
(***************************************************************************)

\* a step of the request in flight: its arrival, any stage of its handling,
\* or the delivery of its response
RequestStep == stages # << >> \/ stages' # << >>

\* what the node has stored and the status cell
StoredState == << storage, events, status >>

\* C38: no step of any request, whether the request succeeds, fails with a
\* domain error, names no registered method or fails at parameter binding,
\* changes the stored blocks with their transactions, events and contract
\* state, or the status cell
C38_RequestsReadOnly == [][RequestStep => UNCHANGED StoredState]_vars

\* a request failed with a domain error and is about to be delivered, while
\* there are blocks stored and the status cell holds a status
C38_Witness ==
    /\ Stage = "Serialized"
    /\ DomainErrorReply
    /\ FullStorage
    /\ status # SyncingFalse

\* the same for a request that succeeded
C38_SuccessServed ==
    Stage = "Serialized" /\ Answered /\ rpc_reply.tag = "Ok" /\ FullStorage /\ status # SyncingFalse

\* the same for a request whose params did not bind
C38_BindFailureServed ==
    Stage = "Serialized" /\ Unbindable /\ FullStorage /\ status # SyncingFalse

====
